---- MODULE Spec2Model ----
(***************************************************************************)
(* Clog-Bot: the rate-limited fetch scheduler (services/api_service.py)    *)
(* and the leaderboard synchronisation pass                                *)
(* (services/leaderboard_service.py).                                      *)
(*                                                                         *)
(* Time is an integer number of ticks.  One minute is                      *)
(* 60 * MAX_REQUESTS_PER_MINUTE ticks, so that one second and the wait     *)
(* 60 / MAX_REQUESTS_PER_MINUTE seconds of ensure_token_available are both *)
(* whole numbers of ticks and int(elapsed * rate) is computed exactly.     *)
(* Tasks run as in asyncio: one step of the model is what a task does      *)
(* between two suspension points, and a sleep wakes at its due time.       *)
(***************************************************************************)
EXTENDS Integers, Sequences, FiniteSets, TLC

VARIABLES
    now,          \* time.time(), in ticks
    tokens,       \* _rate_limit_data["tokens"]
    last_refill,  \* _rate_limit_data["last_refill"]
    client,       \* SpecBucket: the one flow driving the bucket directly
    burst,        \* SpecBucket: history of the calls made back to back from the start
                  \* and of the tokens taken since a window was opened
    queue,        \* _rate_limit_data["queue"]: the callers whose request is queued
    processing,   \* _rate_limit_data["processing"]
    procs,        \* the rate_limit_processor tasks
    callers,      \* the flows inside fetch_collection_log
    issued,       \* history: external requests issued
    consumed,     \* history: tokens taken out of the bucket by ensure_token_available
    quiet,        \* history: the cooldown asked for by the 429 responses
    env,          \* history: what the environment has done so far
    linked_accounts,  \* table linked_accounts: the usernames of the guild, in SELECT order
    leaderboard,  \* table leaderboard of the guild, as the shared connection sees it
    committed,    \* table leaderboard of the guild, as last committed
    bot_state,    \* table bot_state of the guild: channel id and message id
    channel,      \* the leaderboard channel at the destination
    pass,         \* the locals of update_leaderboard(guild_id) and its history
    overridden,   \* history: the totals /override has stored, and those no fetched score has replaced
    ranking,      \* SpecRank: a list of records and what sorting and cutting make of it
    refresh,      \* the locals of refresh_leaderboard_display(guild_id) and its history
    fanout,       \* the invocations of update_leaderboard() without a guild
    external,     \* what the external source holds for each username
    manual,       \* /resync: the locals of the update_leaderboard(guild_id) it calls, and its report
    request,      \* one call of _fetch_collection_log_internal: the answer and what is made of it
    db            \* the database file's schema, the shared handle db_conn and the flows using it

clientVars == <<client, burst>>
queueVars == <<queue, processing, procs, callers, issued, consumed, quiet, env>>
syncVars == <<linked_accounts, leaderboard, committed, bot_state, channel, pass>>
limiterVars == <<now, tokens, last_refill>>
vars == <<now, tokens, last_refill, client, burst,
          queue, processing, procs, callers, issued, consumed, quiet, env,
          linked_accounts, leaderboard, committed, bot_state, channel, pass,
          overridden, ranking, refresh, fanout, external, manual, request, db>>
otherVars == <<overridden, ranking, refresh, fanout, external, manual, request, db>>

\* ------------------------------------------------------------------
\* Program constants
\* ------------------------------------------------------------------
MAX_REQUESTS_PER_MINUTE == 14
MAX_BURST == 90

\* ------------------------------------------------------------------
\* Bounds of the model
\* ------------------------------------------------------------------
\* SpecBucket: calls of ensure_token_available followed beyond MAX_BURST
MaxExtraCalls == 2
\* SpecBucket: the clock stops after this many waits of ensure_token_available
MaxTimeWaits == 3
\* SpecQueue: flows that call fetch_collection_log
MaxCallers == 2
\* SpecQueue: rate_limit_processor tasks alive at once
MaxProcs == 2
\* SpecQueue: the largest max_retries a caller passes
MaxRetries == 2
\* SpecQueue: idle periods between two lookups
MaxIdles == 1
\* SpecQueue: answers of the external source that make a request fail
MaxFailures == 3
\* SpecQueue: 429 answers among them
MaxRateLimits == 1
\* SpecQueue: callers cancelled while they wait for their request
MaxAbandons == 1
\* SpecLive: rate_limit_processor tasks cancelled while they are suspended
MaxCancels == 1
\* SpecStore: flows that use the shared connection
MaxFlows == 2
\* SpecStore: connections opened by init_db
MaxOpens == 3
\* SpecStore: times the shared handle is lost
MaxLosses == 1
\* SpecSync: rows of linked_accounts in the guild
MaxLinked == 2
\* SpecSync: passes run one after the other
MaxPasses == 1
\* SpecSync: statements and commits the store refuses in one pass
MaxStoreErrors == 1
\* SpecOverride: calls of /override
MaxOverrides == 1
\* SpecOverride: passes run one after the other
MaxRepeats == 2
\* SpecRefresh: calls of refresh_leaderboard_display
MaxRefreshes == 1
\* SpecPublish: messages deleted at the destination by someone else
MaxDeletes == 1
\* SpecRank: the length of the lists whose records take every score and rank
MaxSmall == 3
\* SpecRank: the length of the longest list of records
MaxRecords == 52
\* SpecFanOut: invocations of update_leaderboard nested in one another when
\* the interpreter raises RecursionError (sys.getrecursionlimit() frames in
\* the program)
MaxDepth == 3
\* SpecFanOut: ticks of the hourly loop
MaxTicks == 2
\* SpecOverlap: uses of /resync
MaxResyncs == 1

\* ------------------------------------------------------------------
\* Time
\* ------------------------------------------------------------------
TicksPerMinute == 60 * MAX_REQUESTS_PER_MINUTE
Second == TicksPerMinute \div 60

Min(a, b) == IF a < b THEN a ELSE b
Max(a, b) == IF a > b THEN a ELSE b

\* ------------------------------------------------------------------
\* Token bucket
\* ------------------------------------------------------------------
\* Mutant of wait_time: the minute divided by the burst size
wait_time_per_burst == TicksPerMinute \div MAX_BURST

\* wait_time = 60.0 / MAX_REQUESTS_PER_MINUTE seconds
wait_time == TicksPerMinute \div MAX_REQUESTS_PER_MINUTE

\* new_tokens = int(elapsed * (MAX_REQUESTS_PER_MINUTE / 60.0))
new_tokens(lr, t) == ((t - lr) * MAX_REQUESTS_PER_MINUTE) \div TicksPerMinute

\* Mutant of refill_tokens: the sum is not capped at MAX_BURST
refill_tokens_uncapped(tok, lr, t) ==
    IF new_tokens(lr, t) > 0
    THEN [tokens |-> tok + new_tokens(lr, t), last_refill |-> t]
    ELSE [tokens |-> tok, last_refill |-> lr]

\* refill_tokens(), called at time t with the bucket <<tok, lr>>
refill_tokens(tok, lr, t) ==
    IF new_tokens(lr, t) > 0
    THEN [tokens |-> Min(MAX_BURST, tok + new_tokens(lr, t)), last_refill |-> t]
    ELSE [tokens |-> tok, last_refill |-> lr]

\* Mutant of ensure_token_available: the token is granted but not taken
ensure_token_available_untaken(tok, lr, t) ==
    LET b == refill_tokens(tok, lr, t)
    IN  [tokens |-> b.tokens, last_refill |-> b.last_refill, granted |-> b.tokens > 0]

\* One turn of the loop of ensure_token_available() at time t: refill, then
\* either take a token and return (granted) or go to sleep for wait_time.
ensure_token_available(tok, lr, t) ==
    LET b == refill_tokens(tok, lr, t)
    IN  IF b.tokens > 0
        THEN [tokens |-> b.tokens - 1, last_refill |-> b.last_refill, granted |-> TRUE]
        ELSE [tokens |-> b.tokens, last_refill |-> b.last_refill, granted |-> FALSE]

\* _rate_limit_data["tokens"] = 0 on a 429 response
rate_limited_tokens == 0

\* ------------------------------------------------------------------
\* The external source's answers
\* ------------------------------------------------------------------
\* One entry of the "activities" list
Activity(id, score, rank) == [id |-> id, score |-> score, rank |-> rank]

\* The id of the "Collections Logged" entry
COLLECTIONS_LOGGED == 18

\* JSON null, where a number is expected
Null == -2

\* The "activities" lists of the 200 answers that parse
ActivityLists ==
    { <<>>,
      <<Activity(0, 40, 3), Activity(COLLECTIONS_LOGGED, 600, 7)>>,
      <<Activity(COLLECTIONS_LOGGED, Null, 7)>> }

\* Retry-After of a 429 answer: absent, not a number, or a number of seconds
NoHeader == "absent"
BadHeader == "soon"
RetryAfterHeaders == {NoHeader, BadHeader, "0"}

\* int(retry_after) for the headers that parse
Parses(h) == h \in {"0", "1", "60"}
IntOf(h) == CASE h = "0" -> 0 [] h = "1" -> 1 [] h = "60" -> 60

\* The answers to one request.  Status 0 stands for no answer at all
\* (aiohttp.ClientError, a timeout); json tells whether the body parses.
Responses ==
    [status : {200}, json : {TRUE}, activities : ActivityLists, retry_after : {NoHeader}]
    \cup [status : {200}, json : {FALSE}, activities : {<<>>}, retry_after : {NoHeader}]
    \cup [status : {429}, json : {FALSE}, activities : {<<>>}, retry_after : RetryAfterHeaders]
    \cup [status : {0, 404, 503}, json : {FALSE}, activities : {<<>>}, retry_after : {NoHeader}]

\* ------------------------------------------------------------------
\* Retry/backoff fetch client
\* ------------------------------------------------------------------
\* What a fetch returns: None, or {"score": .., "rank": ..}
None == [none |-> TRUE, score |-> 0, rank |-> 0]
Result(score, rank) == [none |-> FALSE, score |-> score, rank |-> rank]

\* Mutant of find_activity: a list without the entry counts as a failure
find_activity_or_none(acts) ==
    IF \E i \in DOMAIN acts : acts[i].id = COLLECTIONS_LOGGED
    THEN LET i == CHOOSE i \in DOMAIN acts :
                      /\ acts[i].id = COLLECTIONS_LOGGED
                      /\ \A j \in 1 .. i - 1 : acts[j].id # COLLECTIONS_LOGGED
         IN  Result(acts[i].score, acts[i].rank)
    ELSE None

\* for activity in data.get("activities", []): if activity["id"] == 18: return ..
RECURSIVE find_activity(_)
find_activity(acts) ==
    IF acts = <<>>
    THEN Result(-1, -1)
    ELSE IF Head(acts).id = COLLECTIONS_LOGGED
         THEN Result(Head(acts).score, Head(acts).rank)
         ELSE find_activity(Tail(acts))

\* retry_after = response.headers.get("Retry-After", "60"), then
\* retry_seconds = int(retry_after), or 60 on ValueError
retry_seconds(h) ==
    LET retry_after == IF h = NoHeader THEN "60" ELSE h
    IN  IF Parses(retry_after) THEN IntOf(retry_after) ELSE 60

\* Mutant of fetch_collection_log_internal: a request that gets no answer
\* raises aiohttp.ClientError to the caller, and a status that is neither
\* 200 nor 429 nor a server error is taken for an absent entry
fetch_collection_log_internal_uncaught(r) ==
    IF r.status = 200
    THEN [result |-> IF r.json THEN find_activity(r.activities) ELSE None,
          zero |-> FALSE, sleep |-> 0, raised |-> FALSE]
    ELSE IF r.status = 429
         THEN [result |-> None, zero |-> TRUE,
               sleep |-> (retry_seconds(r.retry_after) + 1) * Second,
               raised |-> FALSE]
         ELSE IF r.status = 0
         THEN [result |-> None, zero |-> FALSE, sleep |-> 0, raised |-> TRUE]
         ELSE IF r.status >= 500
         THEN [result |-> None, zero |-> FALSE, sleep |-> 0, raised |-> FALSE]
         ELSE [result |-> Result(-1, -1), zero |-> FALSE, sleep |-> 0,
               raised |-> FALSE]

\* _fetch_collection_log_internal on the answer r: what it returns, whether
\* it empties the bucket, how long it sleeps before returning, and whether
\* it raises: every exception of the request and of the parsing is caught
\* and logged.
fetch_collection_log_internal(r) ==
    IF r.status = 200
    THEN [result |-> IF r.json THEN find_activity(r.activities) ELSE None,
          zero |-> FALSE, sleep |-> 0, raised |-> FALSE]
    ELSE IF r.status = 429
         THEN [result |-> None, zero |-> TRUE,
               sleep |-> (retry_seconds(r.retry_after) + 1) * Second,
               raised |-> FALSE]
         ELSE [result |-> None, zero |-> FALSE, sleep |-> 0, raised |-> FALSE]

\* Mutant of fetch_attempts: one attempt too many
fetch_attempts_extra(max_retries) == max_retries + 2

\* for attempt in range(max_retries + 1)
fetch_attempts(max_retries) == max_retries + 1

\* Mutant of backoff_delay: every wait is one second long
backoff_delay_flat(attempt, max_retries) ==
    IF attempt < max_retries THEN Second ELSE 0

\* delay = 2**attempt, slept when attempt < max_retries
backoff_delay(attempt, max_retries) ==
    IF attempt < max_retries THEN (2 ^ attempt) * Second ELSE 0

\* ------------------------------------------------------------------
\* Tasks
\* ------------------------------------------------------------------
CallerIds == 1 .. MaxCallers
ProcIds == 1 .. MaxProcs
Users == {"alice", "bob"}

NoProc == [pc |-> "none", req |-> 0, wake |-> 0]
NewProc == [pc |-> "new", req |-> 0, wake |-> 0]

NoCaller ==
    [pc |-> "idle", username |-> "", max_retries |-> 0, attempt |-> 0,
     future |-> "none", value |-> None, result |-> None, wake |-> 0,
     calls |-> 0, fails |-> 0, oks |-> 0, absent |-> FALSE, hit |-> FALSE,
     ended |-> 0, after |-> {}]

\* History: the callers whose request is enqueued and not issued yet, in the
\* queue or with a task that waits for a token
Unissued ==
    {queue[i] : i \in DOMAIN queue}
    \cup {procs[p].req : p \in {o \in ProcIds : procs[o].pc = "tokenwait"}}

InitQueue ==
    /\ queue = <<>>
    /\ processing = FALSE
    /\ procs = [p \in ProcIds |-> NoProc]
    /\ callers = [c \in CallerIds |-> NoCaller]
    /\ issued = 0
    /\ consumed = 0
    /\ quiet = [until |-> 0, early |-> FALSE]
    /\ env = [idles |-> 0, failures |-> 0, limits |-> 0, abandons |-> 0,
              cancels |-> 0]

\* ------------------------------------------------------------------
\* The store and the destination
\* ------------------------------------------------------------------
\* A row of table leaderboard for one username, and the absence of a row
Row(total, rank) == [present |-> TRUE, total |-> total, rank |-> rank]
NoRow == [present |-> FALSE, total |-> 0, rank |-> 0]

\* The locals of update_leaderboard when no pass has run.  fetched, before
\* errors and refused are history: what each fetch of the pass returned, the
\* rows at the start of the pass, the store errors so far, whether the store
\* has refused the commit.  The fields from id_before on are history too:
\* the stored message id and the content shown when the pass began, whether
\* the stored message existed when the destination answered, the answers,
\* and the edits and sends of the pass with the ids they went to.
NoPass ==
    [pc |-> "idle", runs |-> 0, usernames |-> <<>>, idx |-> 0,
     previous_leaderboard |-> [u \in Users |-> NoRow],
     leaderboard_data |-> <<>>,
     processed_users |-> 0, failed_users |-> 0, unchanged_users |-> 0,
     embed |-> <<>>, rendered |-> FALSE, committed |-> FALSE, aborted |-> FALSE,
     before |-> [u \in Users |-> NoRow], fetched |-> <<>>, errors |-> 0,
     refused |-> FALSE,
     id_before |-> 0, shown_before |-> <<>>, existed |-> FALSE,
     edit_answer |-> "none", send_answer |-> "none",
     edits |-> 0, sends |-> 0, edited_id |-> 0, created_id |-> 0]

\* /resync has not been used: no pass of its own, no report to the caller
NoManual == [pass |-> NoPass, followup |-> "none"]

\* The tables of init_db() with no row in them, no channel set
InitStore ==
    /\ linked_accounts = <<>>
    /\ leaderboard = [u \in Users |-> NoRow]
    /\ committed = [u \in Users |-> NoRow]
    /\ bot_state = [channel_id |-> 0, message_id |-> 0]
    /\ channel = [found |-> FALSE, messages |-> {}, content |-> <<>>,
                  edits |-> 0, sends |-> 0, deletes |-> 0]
    /\ pass = NoPass

\* No /override accepted, nothing ranked, no refresh and no invocation
\* without a guild under way
NoOverride ==
    [stored |-> [u \in Users |-> 0], accepted |-> [u \in Users |-> 0], calls |-> 0]
NoRanking ==
    [input |-> <<>>, sorted |-> <<>>, output |-> <<>>, lines |-> <<>>, done |-> FALSE]
NoRefresh == [pc |-> "idle", runs |-> 0, embed |-> <<>>, answer |-> "none"]
\* The guild ids a row of linked_accounts may hold: interaction.guild_id of
\* /link, which is None outside a guild
GuildIds == {Null, 1, 2}
\* update_leaderboard() without a guild: the result of SELECT DISTINCT
\* guild_id, the invocations under way (scope, position i in the result),
\* the single-guild passes started and finished in the current tick of the
\* loop, the exception being propagated, the ticks so far and the passes
\* of each guild in which something failed, over all ticks
NoFanout ==
    [pc |-> "idle", guild_ids |-> <<>>, stack |-> <<>>,
     started |-> [g \in GuildIds |-> 0], runs |-> [g \in GuildIds |-> 0],
     raising |-> FALSE, errors |-> 0,
     ticks |-> 0, failed |-> [g \in GuildIds |-> 0]]

\* The tables init_db creates, the columns of a leaderboard table that was
\* created by CREATE TABLE, and the column ALTER TABLE adds
Tables == {"linked_accounts", "leaderboard", "bot_state"}
CreatedColumns == {"guild_id", "username", "collection_log_total"}
RankColumn == "hiscore_rank"
Flows == 1 .. MaxFlows

\* The program has not started, on an empty database file.  conn is the
\* connection db_conn names (0: None), dead the connections that are lost,
\* held the connection each flow got from get_db_connection (0: none).
\* last, op, losses and start are history: how each flow's last use of the
\* store ended and what it was, the handles lost, the schema init_db began
\* with at startup.
NoDb ==
    [pc |-> "off", tables |-> {}, columns |-> {}, rank_default |-> Null,
     conn |-> 0, dead |-> {}, held |-> [f \in Flows |-> 0],
     last |-> [f \in Flows |-> "none"], op |-> [f \in Flows |-> "none"],
     losses |-> 0, start |-> "none"]

\* No call of _fetch_collection_log_internal is followed on its own
NoRequest == [pc |-> "none", answer |-> <<>>, returned |-> None, raised |-> FALSE]

\* Nothing is known of the external source where its answers are chosen
\* fetch by fetch
NoExternal == [u \in Users |-> None]

InitOthers ==
    /\ overridden = NoOverride
    /\ ranking = NoRanking
    /\ refresh = NoRefresh
    /\ fanout = NoFanout
    /\ external = NoExternal
    /\ manual = NoManual
    /\ request = NoRequest
    /\ db = NoDb

\* ------------------------------------------------------------------
\* SpecBucket: one flow calling the bucket's operations in any order
\* ------------------------------------------------------------------
MaxTime == MaxTimeWaits * (TicksPerMinute \div MAX_REQUESTS_PER_MINUTE)

\* The bucket as the module leaves it at import
InitBucket ==
    /\ now = 0
    /\ tokens = MAX_BURST
    /\ last_refill = 0

InitClient ==
    /\ client = [pc |-> "ready", wake |-> 0]
    /\ burst = [pristine |-> TRUE, calls |-> 0, sleeps |-> 0,
                open |-> FALSE, since |-> 0, taken |-> 0]

BucketInit == InitBucket /\ InitClient /\ InitQueue /\ InitStore /\ InitOthers

\* What SpecBucket leaves alone
BucketFrame == UNCHANGED <<queueVars, syncVars, otherVars>>

\* The history of the back-to-back run ends with the first thing that is not
\* a call of ensure_token_available.
Spoiled == [burst EXCEPT !.pristine = FALSE, !.calls = 0, !.sleeps = 0]

\* The history of the window counts a token that ensure_token_available takes.
counted(b) == IF b.open THEN [b EXCEPT !.taken = @ + 1] ELSE b

\* refill_tokens() called on its own
BRefill ==
    /\ client.pc = "ready"
    /\ LET b == refill_tokens(tokens, last_refill, now)
       IN  /\ tokens' = b.tokens
           /\ last_refill' = b.last_refill
    /\ UNCHANGED <<now, client, burst>>
    /\ BucketFrame

\* ensure_token_available(): one turn of its loop, from the call or from the
\* end of its sleep.
BEnsure ==
    /\ \/ client.pc = "ready"
       \/ client.pc = "sleeping" /\ now >= client.wake
    /\ burst.pristine => burst.calls < MAX_BURST + MaxExtraCalls
    /\ LET e == ensure_token_available(tokens, last_refill, now)
       IN  /\ tokens' = e.tokens
           /\ last_refill' = e.last_refill
           /\ IF e.granted
              THEN /\ client' = [pc |-> "ready", wake |-> 0]
                   /\ burst' = counted(IF burst.pristine
                                       THEN [burst EXCEPT !.calls = @ + 1]
                                       ELSE burst)
              ELSE /\ now + wait_time <= MaxTime
                   /\ client' = [pc |-> "sleeping", wake |-> now + wait_time]
                   /\ burst' = IF burst.pristine
                               THEN [burst EXCEPT !.sleeps = @ + 1]
                               ELSE burst
    /\ UNCHANGED now
    /\ BucketFrame

\* The external source answers 429: the bucket is emptied.
BRateLimited ==
    /\ client.pc = "ready"
    /\ tokens' = rate_limited_tokens
    /\ burst' = Spoiled
    /\ UNCHANGED <<now, last_refill, client>>
    /\ BucketFrame

\* The sleep of ensure_token_available ends.
BSleep ==
    /\ client.pc = "sleeping"
    /\ now < client.wake
    /\ now' = client.wake
    /\ UNCHANGED <<tokens, last_refill, client, burst>>
    /\ BucketFrame

\* Time passes between two calls.
BIdle ==
    /\ client.pc = "ready"
    /\ \E d \in {Second, wait_time} :
          /\ now + d <= MaxTime
          /\ now' = now + d
    /\ burst' = Spoiled
    /\ UNCHANGED <<tokens, last_refill, client>>
    /\ BucketFrame

BucketNext ==
    \/ BRefill
    \/ BEnsure
    \/ BRateLimited
    \/ BSleep
    \/ BIdle

SpecBucket == BucketInit /\ [][BucketNext]_vars

\* ------------------------------------------------------------------
\* SpecWindow: SpecBucket observed over a time window that opens at any
\* moment of the run
\* ------------------------------------------------------------------
\* A window opens now: the tokens taken from here on are counted.
WindowOpens ==
    /\ ~burst.open
    /\ burst' = [burst EXCEPT !.open = TRUE, !.since = now, !.taken = 0]
    /\ UNCHANGED <<now, tokens, last_refill, client>>
    /\ BucketFrame

WindowNext ==
    \/ BRefill
    \/ BEnsure
    \/ BRateLimited
    \/ BSleep
    \/ BIdle
    \/ WindowOpens

SpecWindow == BucketInit /\ [][WindowNext]_vars

\* ------------------------------------------------------------------
\* SpecQueue: callers of fetch_collection_log, the request queue and the
\* rate_limit_processor tasks
\* ------------------------------------------------------------------
\* What SpecQueue leaves alone
QueueFrame == UNCHANGED <<clientVars, syncVars, otherVars>>

QueueInit == InitBucket /\ InitClient /\ InitQueue /\ InitStore /\ InitOthers

\* The advisory wait of a 429 answer: the seconds Retry-After asks for, 60
\* when the header is missing or is no number
Advisory(h) == CASE h = "0" -> 0 [] h = "1" -> 1 [] OTHER -> 60

\* Whether a 200 answer parses and lists no entry with id 18
NoEntry(r) ==
    /\ r.status = 200
    /\ r.json
    /\ \A i \in DOMAIN r.activities : r.activities[i].id # COLLECTIONS_LOGGED

\* asyncio.create_task(rate_limit_processor()): a new task, not yet run
FreeProcs(ps) == {p \in ProcIds : ps[p].pc = "none"}
create_task(ps) ==
    LET p == CHOOSE p \in FreeProcs(ps) : \A o \in FreeProcs(ps) : p <= o
    IN  [ps EXCEPT ![p] = NewProc]

\* enqueue_api_request by caller c, up to `await future`
enqueue_api_request(c) ==
    /\ queue' = Append(queue, c)
    /\ IF ~processing
       THEN /\ FreeProcs(procs) # {}
            /\ procs' = create_task(procs)
       ELSE procs' = procs

\* The usernames caller c may ask for: one an earlier caller asked for, or
\* the first of the others (which of the others it is makes no difference).
UserOrder == <<"alice", "bob">>
KnownUsers(c) == {UserOrder[i] : i \in 1 .. Min(c, Len(UserOrder))}

\* The lifetime section 4.3 of the specification gives a cached result
TTL_SECONDS == 3600

\* History: a lookup of u has returned a result less than the TTL ago
Fresh(u) ==
    \E o \in CallerIds :
        /\ callers[o].pc = "done"
        /\ ~callers[o].result.none
        /\ callers[o].username = u
        /\ now - callers[o].ended < TTL_SECONDS * Second

\* Mutant of CallerStart: a result less than the TTL old is returned without
\* a request
CallerStartCached(c, u, m) ==
    /\ callers[c].pc = "idle"
    /\ \A o \in CallerIds : o < c => callers[o].pc # "idle"
    /\ u \in KnownUsers(c)
    /\ IF Fresh(u)
       THEN /\ callers' = [callers EXCEPT ![c] =
                    [NoCaller EXCEPT !.pc = "done", !.username = u, !.max_retries = m,
                                     !.hit = TRUE, !.ended = now,
                                     !.result = Result(600, 7)]]
            /\ UNCHANGED <<queue, procs>>
       ELSE /\ callers' = [callers EXCEPT ![c] =
                    [NoCaller EXCEPT !.pc = "waiting", !.username = u,
                                     !.max_retries = m, !.future = "pending"]]
            /\ enqueue_api_request(c)
    /\ UNCHANGED <<now, tokens, last_refill, processing, issued, consumed, quiet, env>>
    /\ QueueFrame

\* fetch_collection_log(username, max_retries) is called: the first attempt
\* is enqueued.
CallerStart(c, u, m) ==
    /\ callers[c].pc = "idle"
    /\ \A o \in CallerIds : o < c => callers[o].pc # "idle"
    /\ u \in KnownUsers(c)
    /\ callers' = [callers EXCEPT ![c] =
                      [NoCaller EXCEPT !.pc = "waiting", !.username = u,
                                       !.max_retries = m, !.future = "pending",
                                       !.hit = Fresh(u), !.after = Unissued]]
    /\ enqueue_api_request(c)
    /\ UNCHANGED <<now, tokens, last_refill, processing, issued, consumed, quiet, env>>
    /\ QueueFrame

\* `return await future` resumes: the result is returned, or the caller
\* backs off before the next attempt, or the attempts are used up.
CallerResume(c) ==
    /\ callers[c].pc = "waiting"
    /\ callers[c].future = "done"
    /\ LET me == callers[c]
           result == me.value
       IN  callers' = [callers EXCEPT ![c] =
               IF ~result.none
               THEN [me EXCEPT !.pc = "done", !.result = result, !.future = "none",
                               !.ended = now]
               ELSE IF me.attempt + 1 < fetch_attempts(me.max_retries)
                    THEN [me EXCEPT !.pc = "backoff", !.future = "none",
                                    !.wake = now + backoff_delay(me.attempt, me.max_retries)]
                    ELSE [me EXCEPT !.pc = "done", !.result = None, !.future = "none",
                                    !.ended = now]]
    /\ UNCHANGED <<now, tokens, last_refill, queue, processing, procs,
                   issued, consumed, quiet, env>>
    /\ QueueFrame

\* The backoff sleep ends: the next attempt is enqueued.
CallerRetry(c) ==
    /\ callers[c].pc = "backoff"
    /\ now >= callers[c].wake
    /\ callers' = [callers EXCEPT ![c].pc = "waiting", ![c].attempt = @ + 1,
                                  ![c].future = "pending", ![c].wake = 0,
                                  ![c].after = Unissued]
    /\ enqueue_api_request(c)
    /\ UNCHANGED <<now, tokens, last_refill, processing, issued, consumed, quiet, env>>
    /\ QueueFrame

\* History: the request of caller c is issued.  after keeps, for a request
\* not issued yet, the requests enqueued before it that are not issued either.
issue(cs, c) ==
    [o \in CallerIds |->
        IF o = c THEN [cs[o] EXCEPT !.calls = @ + 1]
        ELSE IF o \in Unissued THEN [cs[o] EXCEPT !.after = @ \ {c}]
        ELSE cs[o]]

\* await ensure_token_available() and then await callback(*args), by task p
\* for the request of caller c: the request is issued, or the task sleeps
\* wait_time.  cs is the callers as the step has left them so far.
Acquire(p, c, cs) ==
    LET b == refill_tokens(tokens, last_refill, now)
        e == ensure_token_available(tokens, last_refill, now)
    IN  /\ tokens' = e.tokens
        /\ last_refill' = e.last_refill
        /\ consumed' = consumed + (b.tokens - e.tokens)
        /\ IF e.granted
           THEN /\ procs' = [procs EXCEPT ![p] = [pc |-> "inflight", req |-> c, wake |-> 0]]
                /\ issued' = issued + 1
                /\ callers' = issue(cs, c)
                /\ quiet' = [quiet EXCEPT !.early = @ \/ now < quiet.until]
           ELSE /\ procs' = [procs EXCEPT ![p] =
                                [pc |-> "tokenwait", req |-> c, wake |-> now + wait_time]]
                /\ UNCHANGED <<issued, quiet>>
                /\ callers' = cs

\* The top of `while True` in rate_limit_processor, task p, with the queue q:
\* wait in queue.get() or take the next request and go on with it.
Serve(p, q, cs) ==
    IF q = <<>>
    THEN /\ queue' = q
         /\ procs' = [procs EXCEPT ![p] = [pc |-> "get", req |-> 0, wake |-> 0]]
         /\ callers' = cs
         /\ UNCHANGED <<tokens, last_refill, issued, consumed, quiet>>
    ELSE /\ queue' = Tail(q)
         /\ Acquire(p, Head(q), cs)

\* The task of caller c is cancelled while it waits in `await future`: the
\* future is cancelled with it, the request stays where it is.
CallerAbandon(c) ==
    /\ callers[c].pc = "waiting"
    /\ callers[c].future = "pending"
    /\ env.abandons < MaxAbandons
    /\ env' = [env EXCEPT !.abandons = @ + 1]
    /\ callers' = [callers EXCEPT ![c].pc = "cancelled", ![c].future = "cancelled"]
    /\ UNCHANGED <<now, tokens, last_refill, queue, processing, procs,
                   issued, consumed, quiet>>
    /\ QueueFrame

\* A created rate_limit_processor task starts to run.
ProcStart(p) ==
    /\ procs[p].pc = "new"
    /\ processing' = TRUE
    /\ Serve(p, queue, callers)
    /\ UNCHANGED <<now, env>>
    /\ QueueFrame

\* queue.get() returns to a waiting task.
ProcGet(p) ==
    /\ procs[p].pc = "get"
    /\ queue # <<>>
    /\ Serve(p, queue, callers)
    /\ UNCHANGED <<now, processing, env>>
    /\ QueueFrame

\* The sleep of ensure_token_available ends: its loop turns again.
ProcTokenWake(p) ==
    /\ procs[p].pc = "tokenwait"
    /\ now >= procs[p].wake
    /\ Acquire(p, procs[p].req, callers)
    /\ UNCHANGED <<now, queue, processing, env>>
    /\ QueueFrame

\* Mutant of Deliver: the task that has delivered a failed attempt sleeps the
\* caller's backoff itself before it goes on with the queue
DeliverThenBackoff(p, c, res, ab) ==
    IF callers[c].future = "pending"
    THEN LET cs == [callers EXCEPT ![c].future = "done", ![c].value = res,
                                   ![c].fails = @ + (IF res.none THEN 1 ELSE 0),
                                   ![c].oks = @ + (IF res.none THEN 0 ELSE 1),
                                   ![c].absent = ab]
             me == callers[c]
         IN  IF res.none /\ me.attempt + 1 < fetch_attempts(me.max_retries)
             THEN /\ callers' = cs
                  /\ procs' = [procs EXCEPT ![p] =
                        [pc |-> "cooldown", req |-> c,
                         wake |-> now + backoff_delay(me.attempt, me.max_retries)]]
                  /\ UNCHANGED <<queue, processing, tokens, last_refill,
                                 issued, consumed, quiet>>
             ELSE /\ Serve(p, queue, cs)
                  /\ UNCHANGED processing
    ELSE /\ processing' = FALSE
         /\ procs' = create_task([procs EXCEPT ![p] = NoProc])
         /\ UNCHANGED <<queue, callers, tokens, last_refill, issued, consumed, quiet>>

\* future.set_result(result) and queue.task_done() for caller c, then the
\* loop goes on.  On a cancelled future set_result and set_exception raise:
\* the task leaves its loop, clears "processing" and creates its successor.
Deliver(p, c, res, ab) ==
    IF callers[c].future = "pending"
    THEN LET cs == [callers EXCEPT ![c].future = "done", ![c].value = res,
                                   ![c].fails = @ + (IF res.none THEN 1 ELSE 0),
                                   ![c].oks = @ + (IF res.none THEN 0 ELSE 1),
                                   ![c].absent = ab]
         IN  /\ Serve(p, queue, cs)
             /\ UNCHANGED processing
    ELSE /\ processing' = FALSE
         /\ procs' = create_task([procs EXCEPT ![p] = NoProc])
         /\ UNCHANGED <<queue, callers, tokens, last_refill, issued, consumed, quiet>>

\* The due times of the sleeping tasks
Wakes ==
    {callers[c].wake : c \in {o \in CallerIds : callers[o].pc = "backoff"}}
    \cup {procs[p].wake : p \in {o \in ProcIds : procs[o].pc \in {"tokenwait", "cooldown"}}}

\* A task the event loop holds ready to run: it runs before the loop polls
\* for the next answer.
Ready ==
    \/ \E c \in CallerIds : callers[c].pc = "waiting" /\ callers[c].future = "done"
    \/ \E p \in ProcIds : procs[p].pc = "new"
    \/ \E p \in ProcIds : procs[p].pc = "get" /\ queue # <<>>

\* A task that can run now
Runnable == Ready \/ \E w \in Wakes : w <= now

\* The external source answers the request task p has in flight.
ProcResponse(p, r) ==
    /\ procs[p].pc = "inflight"
    /\ ~Ready
    /\ fetch_collection_log_internal(r).result.none => env.failures < MaxFailures
    /\ r.status = 429 => env.limits < MaxRateLimits
    /\ env' = [env EXCEPT !.failures = @ + (IF fetch_collection_log_internal(r).result.none
                                            THEN 1 ELSE 0),
                          !.limits = @ + (IF r.status = 429 THEN 1 ELSE 0)]
    /\ LET c == procs[p].req
           out == fetch_collection_log_internal(r)
       IN  IF out.zero
           THEN /\ tokens' = rate_limited_tokens
                /\ procs' = [procs EXCEPT ![p] =
                                [pc |-> "cooldown", req |-> c, wake |-> now + out.sleep]]
                /\ quiet' = [quiet EXCEPT !.until =
                                Max(@, now + (Advisory(r.retry_after) + 1) * Second)]
                /\ UNCHANGED <<last_refill, queue, processing, callers, issued, consumed>>
           ELSE Deliver(p, c, out.result, NoEntry(r))
    /\ UNCHANGED now
    /\ QueueFrame

\* The sleep after a 429 answer ends: None is returned for the request.
ProcCooldownWake(p) ==
    /\ procs[p].pc = "cooldown"
    /\ now >= procs[p].wake
    /\ Deliver(p, procs[p].req, None, FALSE)
    /\ UNCHANGED <<now, env>>
    /\ QueueFrame

\* Every task is suspended: time passes until the first sleep is due.
Advance ==
    /\ ~Runnable
    /\ Wakes # {}
    /\ now' = CHOOSE w \in Wakes : \A o \in Wakes : w <= o
    /\ UNCHANGED <<tokens, last_refill>>
    /\ UNCHANGED queueVars
    /\ QueueFrame

\* Nothing is going on and a lookup is still to come: time passes.
IdleGaps == {Second, (TTL_SECONDS + 1) * Second}
Idle ==
    /\ ~Runnable
    /\ Wakes = {}
    /\ \A p \in ProcIds : procs[p].pc \in {"none", "get"}
    /\ \E c \in CallerIds : callers[c].pc = "idle"
    /\ env.idles < MaxIdles
    /\ env' = [env EXCEPT !.idles = @ + 1]
    /\ \E d \in IdleGaps : now' = now + d
    /\ UNCHANGED <<tokens, last_refill, queue, processing, procs, callers,
                   issued, consumed, quiet>>
    /\ QueueFrame

QueueNext ==
    \/ \E c \in CallerIds, u \in Users, m \in 0 .. MaxRetries : CallerStart(c, u, m)
    \/ \E c \in CallerIds : CallerResume(c)
    \/ \E c \in CallerIds : CallerRetry(c)
    \/ \E c \in CallerIds : CallerAbandon(c)
    \/ \E p \in ProcIds : ProcStart(p)
    \/ \E p \in ProcIds : ProcGet(p)
    \/ \E p \in ProcIds : ProcTokenWake(p)
    \/ \E p \in ProcIds, r \in Responses : ProcResponse(p, r)
    \/ \E p \in ProcIds : ProcCooldownWake(p)
    \/ Advance
    \/ Idle

SpecQueue == QueueInit /\ [][QueueNext]_vars

\* ==================================================================
\* SpecSync: one guild's synchronisation pass, update_leaderboard(guild_id)
\* ==================================================================

\* What SpecSync leaves alone
SyncFrame == UNCHANGED <<limiterVars, clientVars, queueVars, ranking, refresh, fanout, external, manual, request, db>>

\* What fetch_collection_log returns to the pass: the result of one of its
\* attempts, None when every attempt has failed
FetchReturns == {fetch_collection_log_internal(r).result : r \in Responses}

\* The rows table leaderboard may hold for a username when a pass starts:
\* none, or the row an earlier pass has written for a score of -1, 0 or 600,
\* or the row of an accepted /override
StoredRows == {NoRow, Row(-1, -1), Row(0, 3), Row(100, -1), Row(600, 7)}

\* The usernames a list of linked_accounts rows names
Linked(usernames) == {usernames[i] : i \in DOMAIN usernames}

\* The length of the published ranking
TopN == 50

\* The rows of usernames that are not linked are left out: a pass neither
\* fetches nor writes them.
SyncInit ==
    /\ InitBucket /\ InitClient /\ InitQueue /\ InitOthers
    /\ linked_accounts \in UNION {[1 .. n -> Users] : n \in 0 .. MaxLinked}
    /\ leaderboard \in [Users -> StoredRows]
    /\ \A u \in Users \ Linked(linked_accounts) : ~leaderboard[u].present
    /\ committed = leaderboard
    /\ bot_state \in [channel_id : {0, 1}, message_id : {0, 1}]
    /\ channel \in [found : BOOLEAN, messages : {{}, {1}}, content : {<<>>},
                    edits : {0}, sends : {0}, deletes : {0}]
    /\ pass = NoPass

\* Mutant of begin_pass: a guild without usernames goes on to publish an
\* empty ranking
begin_pass_publishing_empty(lb) ==
    [NoPass EXCEPT
       !.runs = pass.runs + 1,
       !.usernames = linked_accounts,
       !.pc = IF linked_accounts = <<>>
              THEN (IF bot_state.channel_id = 0 \/ ~channel.found THEN "done"
                    ELSE IF bot_state.message_id # 0 THEN "edit" ELSE "send")
              ELSE "fetch",
       !.idx = IF linked_accounts = <<>> THEN 0 ELSE 1,
       !.previous_leaderboard =
           IF linked_accounts = <<>> THEN [u \in Users |-> NoRow]
           ELSE [u \in Users |->
                   IF lb[u].present THEN Row(lb[u].total, 0) ELSE NoRow],
       !.before = lb,
       !.id_before = bot_state.message_id,
       !.shown_before = channel.content]

\* The start of update_leaderboard(guild_id), up to the first fetch: the
\* usernames of the guild are read, and the rows of the last leaderboard.
begin_pass(lb) ==
    [NoPass EXCEPT
       !.runs = pass.runs + 1,
       !.usernames = linked_accounts,
       !.pc = IF linked_accounts = <<>> THEN "done" ELSE "fetch",
       !.idx = IF linked_accounts = <<>> THEN 0 ELSE 1,
       !.previous_leaderboard =
           IF linked_accounts = <<>> THEN [u \in Users |-> NoRow]
           ELSE [u \in Users |->
                   IF lb[u].present THEN Row(lb[u].total, 0) ELSE NoRow],
       !.before = lb,
       !.id_before = bot_state.message_id,
       !.shown_before = channel.content]

PassStart ==
    /\ pass.pc \in {"idle", "done"}
    /\ pass.runs < MaxPasses
    /\ pass' = begin_pass(leaderboard)
    /\ UNCHANGED <<linked_accounts, leaderboard, committed, bot_state, channel,
                   overridden>>
    /\ SyncFrame

\* Mutant of resolve_score: the score of the result is written as it is
resolve_score_unkept(lb, username, score) == score

\* The score written for a result whose score is -1: the stored total when
\* it lies strictly between 0 and 500
resolve_score(lb, username, score) ==
    IF /\ score = -1
       /\ lb[username].present
       /\ lb[username].total > 0
       /\ lb[username].total < 500
    THEN lb[username].total
    ELSE score

\* Mutant of process_user: the upsert adds the score to the stored total
process_user_adding(lb, prev, username, result, store_ok) ==
    IF result.none \/ result.score = Null \/ ~store_ok
    THEN [leaderboard |-> lb, entry |-> <<>>,
          processed |-> 0, failed |-> 0, unchanged |-> 0]
    ELSE LET score == lb[username].total + result.score
         IN [leaderboard |-> [lb EXCEPT ![username] = Row(score, result.rank)],
             entry |-> << <<username, score, result.rank>> >>,
             processed |-> 1, failed |-> 0, unchanged |-> 0]

\* One turn of the loop over the usernames, after the fetch has returned
\* result: the table as the turn leaves it, what it appends to
\* leaderboard_data and what it adds to the counters.  store_ok tells
\* whether the store executes the turn's statements.
process_user(lb, prev, username, result, store_ok) ==
    IF result.none
    THEN [leaderboard |-> lb, entry |-> <<>>,
          processed |-> 0, failed |-> 0, unchanged |-> 0]
    ELSE IF result.score # Null
    THEN IF ~store_ok
         THEN [leaderboard |-> lb, entry |-> <<>>,
               processed |-> 0, failed |-> 1, unchanged |-> 0]
         ELSE LET score == resolve_score(lb, username, result.score)
              IN [leaderboard |-> [lb EXCEPT ![username] = Row(score, result.rank)],
                  entry |-> << <<username, score, result.rank>> >>,
                  processed |-> 1, failed |-> 0,
                  unchanged |-> IF prev[username].present /\ prev[username].total = score
                                THEN 1 ELSE 0]
    ELSE IF prev[username].present
         THEN [leaderboard |-> lb,
               entry |-> << <<username, prev[username].total>> >>,
               processed |-> 1, failed |-> 1, unchanged |-> 0]
         ELSE [leaderboard |-> lb, entry |-> <<>>,
               processed |-> 0, failed |-> 1, unchanged |-> 0]

\* The sort key of the ranking: (-x[1], x[2] if len(x) > 2 and x[2] > 0
\* else inf).  HasRank tells whether the second component is finite.
HasRank(x) == Len(x) > 2 /\ x[3] > 0

\* Mutant of key_less: the rank is compared as it is, even when it is not
\* positive
key_less_raw(a, b) ==
    \/ a[2] > b[2]
    \/ a[2] = b[2] /\ Len(a) > 2 /\ Len(b) > 2 /\ a[3] < b[3]

key_less(a, b) ==
    \/ a[2] > b[2]
    \/ a[2] = b[2] /\ HasRank(a) /\ (HasRank(b) => a[3] < b[3])

\* list.sort is stable: an entry goes behind the entries whose key is
\* smaller and behind the earlier entries whose key is the same
sort(data) ==
    LET n == Len(data)
        ahead(i) == {j \in 1 .. n :
                       \/ key_less(data[j], data[i])
                       \/ ~key_less(data[i], data[j]) /\ j < i}
        place == [i \in 1 .. n |-> Cardinality(ahead(i)) + 1]
    IN [p \in 1 .. n |-> data[CHOOSE i \in 1 .. n : place[i] = p]]

\* Mutant of top: the list is not cut
top_uncut(data) == data

\* leaderboard_data[:50]
top(data) == SubSeq(data, 1, Min(Len(data), TopN))

\* The loop that writes the lines of the embed unpacks three values from
\* every entry
unpacks(data) == \A i \in DOMAIN data : Len(data[i]) = 3

display_score(score) == IF score # -1 THEN ToString(score) ELSE "<500"

render(data) ==
    [i \in DOMAIN data |->
        [username |-> data[i][1], display_score |-> display_score(data[i][2])]]

\* Where the pass goes once the embed is built: nowhere without a channel
\* id or a channel, to the edit of the stored message, or to a new message
publish_target ==
    IF bot_state.channel_id = 0 \/ ~channel.found THEN "done"
    ELSE IF bot_state.message_id # 0 THEN "edit"
    ELSE "send"

\* Mutant of finish_pass: the embed is written before the commit, so a pass
\* that cannot write it leaves the `with` block by the exception and the
\* connection is rolled back
finish_pass_render_first(p, lb, commit_ok) ==
    LET ranked == top(sort(p.leaderboard_data))
    IN IF ~commit_ok \/ ~unpacks(ranked)
       THEN [pass |-> [p EXCEPT !.pc = "done", !.aborted = TRUE,
                                !.refused = ~commit_ok],
             leaderboard |-> committed, committed |-> committed]
       ELSE [pass |-> [p EXCEPT !.pc = publish_target,
                                !.committed = TRUE, !.leaderboard_data = ranked,
                                !.embed = render(ranked), !.rendered = TRUE],
             leaderboard |-> lb, committed |-> lb]

\* After the last turn of the loop: commit, sort, cut to the top 50, build
\* the embed, up to the first call at the destination.  p is the pass after
\* the loop and lb the table it leaves; commit_ok tells whether the store
\* executes the commit.  An exception leaves the `with` block of the
\* connection, which rolls back, and is logged by update_leaderboard.
finish_pass(p, lb, commit_ok) ==
    LET ranked == top(sort(p.leaderboard_data))
    IN IF ~commit_ok
       THEN [pass |-> [p EXCEPT !.pc = "done", !.aborted = TRUE, !.refused = TRUE],
             leaderboard |-> committed, committed |-> committed]
       ELSE IF ~unpacks(ranked)
       THEN [pass |-> [p EXCEPT !.pc = "done", !.aborted = TRUE,
                                !.committed = TRUE, !.leaderboard_data = ranked],
             leaderboard |-> lb, committed |-> lb]
       ELSE [pass |-> [p EXCEPT !.pc = publish_target,
                                !.committed = TRUE, !.leaderboard_data = ranked,
                                !.embed = render(ranked), !.rendered = TRUE],
             leaderboard |-> lb, committed |-> lb]

\* fetch_collection_log returns result to the pass: the turn of the loop
\* for the current username, then the next fetch or, after the last
\* username, the rest of the pass up to the first call at the destination.
PassResume(result, store_ok, commit_ok) ==
    /\ pass.pc = "fetch"
    /\ LET username == pass.usernames[pass.idx]
           last == pass.idx = Len(pass.usernames)
           errors == pass.errors + (IF store_ok THEN 0 ELSE 1)
                                 + (IF commit_ok THEN 0 ELSE 1)
           u == process_user(leaderboard, pass.previous_leaderboard,
                             username, result, store_ok)
           p == [pass EXCEPT
                   !.leaderboard_data = @ \o u.entry,
                   !.processed_users = @ + u.processed,
                   !.failed_users = @ + u.failed,
                   !.unchanged_users = @ + u.unchanged,
                   !.errors = errors,
                   !.fetched = Append(@, [username |-> username, result |-> result,
                                          raised |-> ~store_ok,
                                          was |-> leaderboard[username],
                                          wrote |-> IF u.failed = 0 /\ u.processed = 1
                                                    THEN u.leaderboard[username]
                                                    ELSE NoRow])]
           f == finish_pass(p, u.leaderboard, commit_ok)
       IN /\ errors <= MaxStoreErrors
          /\ ~store_ok => ~result.none /\ result.score # Null
          /\ ~commit_ok => last
          /\ IF last
             THEN /\ pass' = f.pass
                  /\ leaderboard' = f.leaderboard
                  /\ committed' = f.committed
             ELSE /\ pass' = [p EXCEPT !.idx = @ + 1]
                  /\ leaderboard' = u.leaderboard
                  /\ UNCHANGED committed
    /\ overridden' =
          IF ~result.none /\ result.score # Null /\ result.score # -1 /\ store_ok
          THEN [overridden EXCEPT !.stored[pass.usernames[pass.idx]] = 0]
          ELSE overridden
    /\ UNCHANGED <<linked_accounts, bot_state, channel>>
    /\ SyncFrame

\* What the destination answers to fetch_message and edit, and to send
EditAnswers == {"ok", "not_found", "forbidden", "error"}
SendAnswers == {"ok", "forbidden", "error"}

\* The id the destination gives a new message
new_message_id ==
    LET ids == channel.messages \cup {bot_state.message_id}
    IN 1 + CHOOSE i \in ids : \A j \in ids : j <= i

\* Mutant of PassEdit: after the edit a new message is sent as well
PassEditThenSend(answer) ==
    /\ pass.pc = "edit"
    /\ answer = "ok" => bot_state.message_id \in channel.messages
    /\ answer = "not_found" => bot_state.message_id \notin channel.messages
    /\ channel' = IF answer = "ok"
                  THEN [channel EXCEPT !.content = pass.embed, !.edits = @ + 1]
                  ELSE channel
    /\ pass' = [pass EXCEPT
                  !.pc = IF answer \in {"not_found", "ok"} THEN "send" ELSE "done",
                  !.edit_answer = answer,
                  !.existed = bot_state.message_id \in channel.messages,
                  !.edits = IF answer = "ok" THEN @ + 1 ELSE @,
                  !.edited_id = IF answer = "ok" THEN bot_state.message_id ELSE @]
    /\ UNCHANGED <<linked_accounts, leaderboard, committed, bot_state, overridden>>
    /\ SyncFrame

\* Mutant of PassEdit: a forbidden edit falls through to a new message
PassEditForbiddenSends(answer) ==
    /\ pass.pc = "edit"
    /\ answer = "ok" => bot_state.message_id \in channel.messages
    /\ answer = "not_found" => bot_state.message_id \notin channel.messages
    /\ channel' = IF answer = "ok"
                  THEN [channel EXCEPT !.content = pass.embed, !.edits = @ + 1]
                  ELSE channel
    /\ pass' = [pass EXCEPT
                  !.pc = IF answer \in {"not_found", "forbidden"} THEN "send" ELSE "done",
                  !.edit_answer = answer,
                  !.existed = bot_state.message_id \in channel.messages,
                  !.edits = IF answer = "ok" THEN @ + 1 ELSE @,
                  !.edited_id = IF answer = "ok" THEN bot_state.message_id ELSE @]
    /\ UNCHANGED <<linked_accounts, leaderboard, committed, bot_state, overridden>>
    /\ SyncFrame

\* The destination answers the fetch and edit of the stored message.  When
\* the pass ends here it leaves the `with` block of the connection, which
\* commits what the shared connection holds.
PassEdit(answer) ==
    /\ pass.pc = "edit"
    /\ answer = "ok" => bot_state.message_id \in channel.messages
    /\ answer = "not_found" => bot_state.message_id \notin channel.messages
    /\ channel' = IF answer = "ok"
                  THEN [channel EXCEPT !.content = pass.embed, !.edits = @ + 1]
                  ELSE channel
    /\ pass' = [pass EXCEPT
                  !.pc = IF answer = "not_found" THEN "send" ELSE "done",
                  !.edit_answer = answer,
                  !.existed = bot_state.message_id \in channel.messages,
                  !.edits = IF answer = "ok" THEN @ + 1 ELSE @,
                  !.edited_id = IF answer = "ok" THEN bot_state.message_id ELSE @]
    /\ committed' = IF answer = "not_found" THEN committed ELSE leaderboard
    /\ UNCHANGED <<linked_accounts, leaderboard, bot_state, overridden>>
    /\ SyncFrame

\* Mutant of PassSend: the id of the new message is not stored
PassSendUnsaved(answer) ==
    /\ pass.pc = "send"
    /\ IF answer = "ok"
       THEN /\ channel' = [channel EXCEPT
                             !.messages = @ \cup {new_message_id},
                             !.content = pass.embed,
                             !.sends = @ + 1]
            /\ UNCHANGED bot_state
       ELSE UNCHANGED <<channel, bot_state>>
    /\ pass' = [pass EXCEPT
                  !.pc = "done",
                  !.send_answer = answer,
                  !.sends = IF answer = "ok" THEN @ + 1 ELSE @,
                  !.created_id = IF answer = "ok" THEN new_message_id ELSE @]
    /\ UNCHANGED <<linked_accounts, leaderboard, committed, overridden>>
    /\ SyncFrame

\* send_leaderboard_embed: the destination answers the send; the id of the
\* new message is stored.  The pass ends and leaves the `with` block of the
\* connection, which commits what the shared connection holds.
PassSend(answer) ==
    /\ pass.pc = "send"
    /\ IF answer = "ok"
       THEN /\ channel' = [channel EXCEPT
                             !.messages = @ \cup {new_message_id},
                             !.content = pass.embed,
                             !.sends = @ + 1]
            /\ bot_state' = [bot_state EXCEPT !.message_id = new_message_id]
       ELSE UNCHANGED <<channel, bot_state>>
    /\ pass' = [pass EXCEPT
                  !.pc = "done",
                  !.send_answer = answer,
                  !.sends = IF answer = "ok" THEN @ + 1 ELSE @,
                  !.created_id = IF answer = "ok" THEN new_message_id ELSE @]
    /\ committed' = leaderboard
    /\ UNCHANGED <<linked_accounts, leaderboard, overridden>>
    /\ SyncFrame

SyncNext ==
    \/ PassStart
    \/ \E result \in FetchReturns, store_ok \in BOOLEAN, commit_ok \in BOOLEAN :
          PassResume(result, store_ok, commit_ok)
    \/ \E answer \in EditAnswers : PassEdit(answer)
    \/ \E answer \in SendAnswers : PassSend(answer)

SpecSync == SyncInit /\ [][SyncNext]_vars

\* ==================================================================
\* SpecOverride: /override and the passes that follow it, in a guild with
\* no leaderboard channel set
\* ==================================================================

\* The totals a moderator passes to /override
OverrideTotals == {-1, 0, 1, 250, 498, 499, 500}

OverrideInit ==
    /\ InitBucket /\ InitClient /\ InitQueue /\ InitOthers
    /\ linked_accounts \in UNION {[1 .. n -> Users] : n \in 1 .. MaxLinked}
    /\ leaderboard \in [Users -> StoredRows]
    /\ \A u \in Users \ Linked(linked_accounts) : ~leaderboard[u].present
    /\ committed = leaderboard
    /\ bot_state = [channel_id |-> 0, message_id |-> 0]
    /\ channel = [found |-> FALSE, messages |-> {}, content |-> <<>>,
                  edits |-> 0, sends |-> 0, deletes |-> 0]
    /\ pass = NoPass

\* Whether /override stores the total: it is not turned down by the range
\* check, the username has a row and the row's total is under 500
override_accepts(lb, username, total) ==
    /\ ~(total >= 499 \/ total <= 0)
    /\ lb[username].present
    /\ lb[username].total < 500

\* /override username total, while no pass is under way: an accepted total
\* is stored and committed, and update_leaderboard(guild_id) is started.
Override(username, total) ==
    /\ pass.pc \in {"idle", "done"}
    /\ pass.runs < MaxRepeats
    /\ overridden.calls < MaxOverrides
    /\ IF override_accepts(leaderboard, username, total)
       THEN LET lb == [leaderboard EXCEPT ![username].total = total]
            IN /\ leaderboard' = lb
               /\ committed' = lb
               /\ pass' = begin_pass(lb)
               /\ overridden' = [overridden EXCEPT !.stored[username] = total,
                                                   !.accepted[username] = total,
                                                   !.calls = @ + 1]
       ELSE /\ overridden' = [overridden EXCEPT !.calls = @ + 1]
            /\ UNCHANGED <<leaderboard, committed, pass>>
    /\ UNCHANGED <<linked_accounts, bot_state, channel>>
    /\ SyncFrame

\* A later pass of the guild: the hourly one, or /resync
PassAgain ==
    /\ pass.pc \in {"idle", "done"}
    /\ pass.runs < MaxRepeats
    /\ pass' = begin_pass(leaderboard)
    /\ UNCHANGED <<linked_accounts, leaderboard, committed, bot_state, channel,
                   overridden>>
    /\ SyncFrame

OverrideNext ==
    \/ \E username \in Users, total \in OverrideTotals : Override(username, total)
    \/ PassAgain
    \/ \E result \in FetchReturns, store_ok \in BOOLEAN, commit_ok \in BOOLEAN :
          PassResume(result, store_ok, commit_ok)

SpecOverride == OverrideInit /\ [][OverrideNext]_vars

\* ==================================================================
\* SpecPublish: the passes of a guild with one linked username, one after
\* the other, and the leaderboard message at the destination
\* ==================================================================

PublishInit ==
    /\ InitBucket /\ InitClient /\ InitQueue /\ InitOthers
    /\ \E u \in Users : linked_accounts = <<u>>
    /\ leaderboard \in [Users -> StoredRows]
    /\ \A u \in Users \ Linked(linked_accounts) : ~leaderboard[u].present
    /\ committed = leaderboard
    /\ bot_state \in [channel_id : {0, 1}, message_id : {0, 1}]
    /\ channel \in [found : BOOLEAN, messages : {{}, {1}}, content : {<<>>},
                    edits : {0}, sends : {0}, deletes : {0}]
    /\ pass = NoPass

\* Someone deletes a message of the channel at the destination.
MessageDeleted(id) ==
    /\ id \in channel.messages
    /\ channel.deletes < MaxDeletes
    /\ channel' = [channel EXCEPT !.messages = @ \ {id}, !.deletes = @ + 1]
    /\ UNCHANGED <<linked_accounts, leaderboard, committed, bot_state, pass,
                   overridden>>
    /\ SyncFrame

PublishNext ==
    \/ PassAgain
    \/ \E result \in FetchReturns, store_ok \in BOOLEAN, commit_ok \in BOOLEAN :
          PassResume(result, store_ok, commit_ok)
    \/ \E answer \in EditAnswers : PassEdit(answer)
    \/ \E answer \in SendAnswers : PassSend(answer)
    \/ \E id \in channel.messages : MessageDeleted(id)

SpecPublish == PublishInit /\ [][PublishNext]_vars

\* ==================================================================
\* SpecRefresh: refresh_leaderboard_display(guild_id), called while a pass
\* of the guild may be under way
\* ==================================================================

\* Every linked username is linked once
RefreshInit ==
    /\ SyncInit
    /\ \A i, j \in DOMAIN linked_accounts :
          linked_accounts[i] = linked_accounts[j] => i = j

\* The rows of table leaderboard as a SELECT returns them, in the order
\* first gives to the usernames that have a row
select_rows(lb, first) ==
    [i \in DOMAIN first |-> <<first[i], lb[first[i]].total, lb[first[i]].rank>>]

\* The orders in which a SELECT may return the rows of lb
RowOrders(lb) ==
    LET having == {u \in Users : lb[u].present}
    IN {f \in [1 .. Cardinality(having) -> having] :
           \A i, j \in DOMAIN f : f[i] = f[j] => i = j}

\* Mutant of RefreshDisplay: the display is refreshed by a pass, which
\* fetches the scores anew
RefreshByPass(first) ==
    /\ refresh.pc \in {"idle", "done"}
    /\ refresh.runs < MaxRefreshes
    /\ pass.pc \in {"idle", "done"}
    /\ refresh' = [refresh EXCEPT !.runs = @ + 1, !.pc = "done"]
    /\ pass' = begin_pass(leaderboard)
    /\ UNCHANGED <<linked_accounts, leaderboard, committed, bot_state, channel,
                   overridden>>
    /\ UNCHANGED <<limiterVars, clientVars, queueVars, ranking, fanout, external, manual, request, db>>

\* refresh_leaderboard_display up to the fetch of the stored message: the
\* rows are read, sorted, cut and written into the embed.  Leaving the
\* `with` block of a helper that reads bot_state commits what the shared
\* connection holds.
RefreshDisplay(first) ==
    /\ refresh.pc \in {"idle", "done"}
    /\ refresh.runs < MaxRefreshes
    /\ first \in RowOrders(leaderboard)
    /\ refresh' = [refresh EXCEPT
                     !.runs = @ + 1,
                     !.embed = render(top(sort(select_rows(leaderboard, first)))),
                     !.answer = "none",
                     !.pc = IF \/ bot_state.channel_id = 0
                               \/ ~channel.found
                               \/ bot_state.message_id = 0
                            THEN "done" ELSE "edit"]
    /\ committed' = leaderboard
    /\ UNCHANGED <<linked_accounts, leaderboard, bot_state, channel, pass,
                   overridden>>
    /\ UNCHANGED <<limiterVars, clientVars, queueVars, ranking, fanout, external, manual, request, db>>

\* The destination answers the fetch and edit of the stored message; every
\* failure is logged.  The `with` block of the connection is left.
RefreshEdit(answer) ==
    /\ refresh.pc = "edit"
    /\ answer = "ok" => bot_state.message_id \in channel.messages
    /\ answer = "not_found" => bot_state.message_id \notin channel.messages
    /\ channel' = IF answer = "ok"
                  THEN [channel EXCEPT !.content = refresh.embed, !.edits = @ + 1]
                  ELSE channel
    /\ refresh' = [refresh EXCEPT !.pc = "done", !.answer = answer]
    /\ committed' = leaderboard
    /\ UNCHANGED <<linked_accounts, leaderboard, bot_state, pass, overridden>>
    /\ UNCHANGED <<limiterVars, clientVars, queueVars, ranking, fanout, external, manual, request, db>>

\* A pass runs beside the refresh; the store refuses nothing here
RefreshNext ==
    \/ PassStart
    \/ \E result \in FetchReturns : PassResume(result, TRUE, TRUE)
    \/ \E answer \in EditAnswers : PassEdit(answer)
    \/ \E answer \in SendAnswers : PassSend(answer)
    \/ \E first \in RowOrders(leaderboard) : RefreshDisplay(first)
    \/ \E answer \in EditAnswers : RefreshEdit(answer)

SpecRefresh == RefreshInit /\ [][RefreshNext]_vars

\* ==================================================================
\* SpecRank: the ranking of a list of records (username, score, rank), as
\* update_leaderboard and refresh_leaderboard_display compute it
\* ==================================================================

\* The scores and ranks of the records of the short lists
RankScores == {-1, 100, 150}
RankRanks == {-1, 0, 2, 5}

\* The long lists: record i has the score ((i * a) % m) * 10 - 1 and the
\* rank ((i * b) % k) - 1, for the pairs (a, m) and (b, k) below
ScoreSteps == {<<1, 1>>, <<1, 4>>, <<3, 4>>, <<1, 60>>, <<7, 60>>}
RankSteps == {<<1, 1>>, <<1, 3>>, <<2, 7>>}

long_list(n, sc, rk) ==
    [i \in 1 .. n |-> <<i, ((i * sc[1]) % sc[2]) * 10 - 1, ((i * rk[1]) % rk[2]) - 1>>]

\* The lists of records given to the ranking; a record is named by its
\* place in the list
RankInputs ==
    UNION {[1 .. n -> RankScores \X RankRanks] : n \in 0 .. MaxSmall}

RankInit ==
    /\ InitBucket /\ InitClient /\ InitQueue /\ InitStore
    /\ overridden = NoOverride /\ refresh = NoRefresh /\ fanout = NoFanout
    /\ external = NoExternal /\ manual = NoManual
    /\ request = NoRequest
    /\ db = NoDb
    /\ \/ \E l \in RankInputs :
             ranking = [NoRanking EXCEPT
                          !.input = [i \in DOMAIN l |-> <<i, l[i][1], l[i][2]>>]]
       \/ \E n \in (MaxSmall + 1) .. MaxRecords, sc \in ScoreSteps, rk \in RankSteps :
             ranking = [NoRanking EXCEPT !.input = long_list(n, sc, rk)]

\* The list is sorted, cut to the top 50 and written into the embed.
RankRecords ==
    /\ ~ranking.done
    /\ ranking' = [ranking EXCEPT
                     !.sorted = sort(ranking.input),
                     !.output = top(sort(ranking.input)),
                     !.lines = render(top(sort(ranking.input))),
                     !.done = TRUE]
    /\ UNCHANGED <<limiterVars, clientVars, queueVars, syncVars,
                   overridden, refresh, fanout, external, manual, request, db>>

RankNext == RankRecords

SpecRank == RankInit /\ [][RankNext]_vars

\* ------------------------------------------------------------------
\* SpecFanOut: the hourly update_leaderboard() without a guild, which calls
\* update_leaderboard(guild_id) for every distinct guild_id of
\* linked_accounts
\* ------------------------------------------------------------------
FanOutFrame == UNCHANGED <<limiterVars, clientVars, queueVars, syncVars,
                           overridden, ranking, refresh, external, manual, request, db>>

\* The results of SELECT DISTINCT guild_id FROM linked_accounts
DistinctGuildIds ==
    {s \in UNION {[1 .. n -> GuildIds] : n \in 0 .. Cardinality(GuildIds)} :
        \A i, j \in DOMAIN s : s[i] = s[j] => i = j}

FanOutInit ==
    /\ InitBucket /\ InitClient /\ InitQueue /\ InitStore
    /\ overridden = NoOverride /\ ranking = NoRanking /\ refresh = NoRefresh
    /\ external = NoExternal /\ manual = NoManual
    /\ request = NoRequest
    /\ db = NoDb
    /\ \E s \in DistinctGuildIds : fanout = [NoFanout EXCEPT !.guild_ids = s]

\* An invocation update_leaderboard(scope) that has just been entered
NewFrame(scope) == [scope |-> scope, i |-> 1, pc |-> "start"]

\* `if guild_id:` of a frame: None takes the branch of all guilds
IsGlobal(frame) == frame.scope = Null

Top == fanout.stack[Len(fanout.stack)]
Pop == SubSeq(fanout.stack, 1, Len(fanout.stack) - 1)

\* The loop of discord.ext.tasks calls update_leaderboard(): the first tick,
\* or the next one after update_leaderboard() has returned
GlobalStart ==
    /\ fanout.pc \in {"idle", "done"}
    /\ fanout.ticks < MaxTicks
    /\ fanout' = [fanout EXCEPT
                    !.pc = "running",
                    !.stack = <<NewFrame(Null)>>,
                    !.ticks = @ + 1,
                    !.started = NoFanout.started,
                    !.runs = NoFanout.runs,
                    !.errors = 0]
    /\ FanOutFrame

\* `for (guild_id,) in guild_ids: await update_leaderboard(guild_id)` of the
\* innermost invocation: the next guild_id is passed to a nested invocation,
\* whatever it is; when the interpreter's limit of nested calls is reached
\* the call raises RecursionError instead.
CallGuild ==
    /\ fanout.pc = "running" /\ ~fanout.raising
    /\ fanout.stack # <<>>
    /\ IsGlobal(Top)
    /\ Top.i <= Len(fanout.guild_ids)
    /\ LET g == fanout.guild_ids[Top.i]
           d == Len(fanout.stack)
           advanced == [fanout.stack EXCEPT ![d].i = @ + 1, ![d].pc = "loop"]
       IN IF d < MaxDepth
          THEN fanout' = [fanout EXCEPT !.stack = Append(advanced, NewFrame(g))]
          ELSE fanout' = [fanout EXCEPT !.stack = advanced, !.raising = TRUE]
    /\ FanOutFrame

\* The nested invocation has a guild: its pass starts (the usernames of the
\* guild are read and fetched, the rows written and committed)
GuildPassStart ==
    /\ fanout.pc = "running" /\ ~fanout.raising
    /\ fanout.stack # <<>>
    /\ ~IsGlobal(Top)
    /\ Top.pc = "start"
    /\ fanout' = [fanout EXCEPT
                    !.stack[Len(fanout.stack)].pc = "pass",
                    !.started[Top.scope] = @ + 1]
    /\ FanOutFrame

\* Mutant of GuildPassReturn: what fails in the pass of a guild is raised
\* to the loop that called it
GuildPassRaises(failed) ==
    /\ fanout.pc = "running" /\ ~fanout.raising
    /\ fanout.stack # <<>>
    /\ ~IsGlobal(Top)
    /\ Top.pc = "pass"
    /\ fanout' = [fanout EXCEPT
                    !.stack = Pop,
                    !.runs[Top.scope] = IF failed THEN @ ELSE @ + 1,
                    !.failed[Top.scope] = IF failed THEN @ + 1 ELSE @,
                    !.raising = failed]
    /\ FanOutFrame

\* The pass of the guild ends and returns to the loop that called it.  When
\* something has failed in it (failed = TRUE: a fetch, a statement or the
\* commit of the store, the writing of the embed, a call at the
\* destination), a handler inside the pass or `except Exception` at its end
\* has logged it, and the invocation returns as it does otherwise.
GuildPassReturn(failed) ==
    /\ fanout.pc = "running" /\ ~fanout.raising
    /\ fanout.stack # <<>>
    /\ ~IsGlobal(Top)
    /\ Top.pc = "pass"
    /\ fanout' = [fanout EXCEPT
                    !.stack = Pop,
                    !.runs[Top.scope] = @ + 1,
                    !.failed[Top.scope] = IF failed THEN @ + 1 ELSE @]
    /\ FanOutFrame

\* The loop over the guild ids is over: `return`
GlobalReturn ==
    /\ fanout.pc = "running" /\ ~fanout.raising
    /\ fanout.stack # <<>>
    /\ IsGlobal(Top)
    /\ Top.i > Len(fanout.guild_ids)
    /\ fanout' = [fanout EXCEPT
                    !.stack = Pop,
                    !.pc = IF Len(fanout.stack) = 1 THEN "done" ELSE "running"]
    /\ FanOutFrame

\* `except Exception` of the innermost invocation catches the exception
\* and logs it; the invocation ends without finishing its loop.  In the
\* invocation that reached the limit of nested calls the logging may raise
\* RecursionError again (logged = FALSE), which the invocation around it
\* catches in its turn; an exception leaving the outermost invocation
\* reaches the loop of discord.ext.tasks, which stops.
ExceptException(logged) ==
    /\ fanout.pc = "running" /\ fanout.raising
    /\ fanout.stack # <<>>
    /\ ~logged => Len(fanout.stack) = MaxDepth
    /\ fanout' = [fanout EXCEPT
                    !.stack = Pop,
                    !.errors = @ + 1,
                    !.raising = ~logged,
                    !.pc = IF Len(fanout.stack) > 1 THEN "running"
                           ELSE IF logged THEN "done" ELSE "escaped"]
    /\ FanOutFrame

FanOutNext ==
    \/ GlobalStart
    \/ CallGuild
    \/ GuildPassStart
    \/ \E failed \in BOOLEAN : GuildPassReturn(failed)
    \/ GlobalReturn
    \/ \E logged \in BOOLEAN : ExceptException(logged)

SpecFanOut == FanOutInit /\ [][FanOutNext]_vars

\* ==================================================================
\* SpecTwice: the pass of a guild run twice, one run after the other,
\* while the external source holds the same data for every username and
\* neither the store nor the destination refuses anything
\* ==================================================================

\* What the external source holds: for every username, what
\* fetch_collection_log returns for it whenever it is asked
ExternalData == [Users -> FetchReturns]

TwiceInit ==
    /\ InitBucket /\ InitClient /\ InitQueue
    /\ overridden = NoOverride /\ ranking = NoRanking /\ refresh = NoRefresh
    /\ fanout = NoFanout /\ manual = NoManual
    /\ request = NoRequest
    /\ db = NoDb
    /\ external \in ExternalData
    /\ linked_accounts \in UNION {[1 .. n -> Users] : n \in 0 .. MaxLinked}
    /\ leaderboard \in [Users -> StoredRows]
    /\ \A u \in Users \ Linked(linked_accounts) : ~leaderboard[u].present
    /\ committed = leaderboard
    /\ bot_state \in [channel_id : {0, 1}, message_id : {0, 1}]
    /\ channel \in [found : BOOLEAN, messages : {{}, {1}}, content : {<<>>},
                    edits : {0}, sends : {0}, deletes : {0}]
    /\ pass = NoPass

\* fetch_collection_log returns what the external source holds for the
\* current username
PassResumeExternal ==
    /\ pass.pc = "fetch"
    /\ PassResume(external[pass.usernames[pass.idx]], TRUE, TRUE)

TwiceNext ==
    \/ PassAgain
    \/ PassResumeExternal
    \/ \E answer \in {"ok", "not_found"} : PassEdit(answer)
    \/ PassSend("ok")

SpecTwice == TwiceInit /\ [][TwiceNext]_vars

\* ==================================================================
\* SpecOverlap: the scheduled pass of a guild and the pass /resync calls
\* for the same guild, interleaved at their awaits (every fetch, every
\* call at the destination), on the shared connection, while the external
\* source holds the same data for every username and neither the store
\* nor the destination refuses anything
\* ==================================================================
OverlapFrame == UNCHANGED <<limiterVars, clientVars, queueVars, ranking, refresh,
                            fanout, external, request, db, pass>>

\* The channel of the guild is set and found, so that both passes go on to
\* the destination
OverlapInit ==
    /\ TwiceInit
    /\ bot_state.channel_id = 1
    /\ channel.found

\* /resync: update_leaderboard(guild_id, manual=True) up to its first fetch
ManualStart ==
    /\ manual.pass.pc = "idle"
    /\ manual.pass.runs < MaxResyncs
    /\ manual' = [manual EXCEPT
                    !.pass = [begin_pass(leaderboard) EXCEPT
                                !.runs = manual.pass.runs + 1]]
    /\ UNCHANGED <<linked_accounts, leaderboard, committed, bot_state, channel,
                   overridden>>
    /\ OverlapFrame

\* fetch_collection_log returns to the pass of /resync what the external
\* source holds for the current username: the turn of the loop, then the
\* next fetch or the rest of the pass up to the first call at the
\* destination.  commit_ok tells whether the store executes the commit.
ManualResume(commit_ok) ==
    /\ manual.pass.pc = "fetch"
    /\ LET m == manual.pass
           username == m.usernames[m.idx]
           result == external[username]
           last == m.idx = Len(m.usernames)
           u == process_user(leaderboard, m.previous_leaderboard,
                             username, result, TRUE)
           p == [m EXCEPT
                   !.leaderboard_data = @ \o u.entry,
                   !.processed_users = @ + u.processed,
                   !.failed_users = @ + u.failed,
                   !.unchanged_users = @ + u.unchanged,
                   !.fetched = Append(@, [username |-> username, result |-> result,
                                          raised |-> FALSE,
                                          was |-> leaderboard[username],
                                          wrote |-> IF u.failed = 0 /\ u.processed = 1
                                                    THEN u.leaderboard[username]
                                                    ELSE NoRow])]
           f == finish_pass(p, u.leaderboard, commit_ok)
       IN /\ ~commit_ok => last
          /\ IF last
             THEN /\ manual' = [manual EXCEPT !.pass = f.pass]
                  /\ leaderboard' = f.leaderboard
                  /\ committed' = f.committed
             ELSE /\ manual' = [manual EXCEPT !.pass = [p EXCEPT !.idx = @ + 1]]
                  /\ leaderboard' = u.leaderboard
                  /\ UNCHANGED committed
          /\ overridden' =
                IF ~result.none /\ result.score # Null /\ result.score # -1
                THEN [overridden EXCEPT !.stored[username] = 0]
                ELSE overridden
    /\ UNCHANGED <<linked_accounts, bot_state, channel>>
    /\ OverlapFrame

\* The destination answers the fetch and edit of the stored message to the
\* pass of /resync
ManualEdit(answer) ==
    /\ manual.pass.pc = "edit"
    /\ answer = "ok" => bot_state.message_id \in channel.messages
    /\ answer = "not_found" => bot_state.message_id \notin channel.messages
    /\ channel' = IF answer = "ok"
                  THEN [channel EXCEPT !.content = manual.pass.embed, !.edits = @ + 1]
                  ELSE channel
    /\ manual' = [manual EXCEPT
                    !.pass.pc = IF answer = "not_found" THEN "send" ELSE "done",
                    !.pass.edit_answer = answer,
                    !.pass.existed = bot_state.message_id \in channel.messages,
                    !.pass.edits = IF answer = "ok" THEN @ + 1 ELSE @,
                    !.pass.edited_id = IF answer = "ok" THEN bot_state.message_id ELSE @]
    /\ committed' = IF answer = "not_found" THEN committed ELSE leaderboard
    /\ UNCHANGED <<linked_accounts, leaderboard, bot_state, overridden>>
    /\ OverlapFrame

\* send_leaderboard_embed of the pass of /resync
ManualSend(answer) ==
    /\ manual.pass.pc = "send"
    /\ IF answer = "ok"
       THEN /\ channel' = [channel EXCEPT
                             !.messages = @ \cup {new_message_id},
                             !.content = manual.pass.embed,
                             !.sends = @ + 1]
            /\ bot_state' = [bot_state EXCEPT !.message_id = new_message_id]
       ELSE UNCHANGED <<channel, bot_state>>
    /\ manual' = [manual EXCEPT
                    !.pass.pc = "done",
                    !.pass.send_answer = answer,
                    !.pass.sends = IF answer = "ok" THEN @ + 1 ELSE @,
                    !.pass.created_id = IF answer = "ok" THEN new_message_id ELSE @]
    /\ committed' = leaderboard
    /\ UNCHANGED <<linked_accounts, leaderboard, overridden>>
    /\ OverlapFrame

\* update_leaderboard has returned to /resync, which sends its follow-up
\* message to the caller
ResyncFollowup ==
    /\ manual.pass.pc = "done"
    /\ manual.followup = "none"
    /\ manual' = [manual EXCEPT !.followup = "success"]
    /\ UNCHANGED <<linked_accounts, leaderboard, committed, bot_state, channel,
                   overridden>>
    /\ OverlapFrame

OverlapNext ==
    \/ PassStart
    \/ PassResumeExternal
    \/ \E answer \in {"ok", "not_found"} : PassEdit(answer)
    \/ PassSend("ok")
    \/ ManualStart
    \/ ManualResume(TRUE)
    \/ \E answer \in {"ok", "not_found"} : ManualEdit(answer)
    \/ ManualSend("ok")
    \/ ResyncFollowup

SpecOverlap == OverlapInit /\ [][OverlapNext]_vars

\* ==================================================================
\* SpecAnswer: one call of _fetch_collection_log_internal, from the answer
\* of the external source to the return
\* ==================================================================
AnswerFrame == UNCHANGED <<clientVars, queueVars, syncVars, overridden, ranking,
                           refresh, fanout, external, manual, db>>

\* The request is in flight, the bucket holds any number of tokens
AnswerInit ==
    /\ now = 0
    /\ last_refill = 0
    /\ tokens \in 0 .. MAX_BURST
    /\ InitClient /\ InitQueue /\ InitStore
    /\ overridden = NoOverride /\ ranking = NoRanking /\ refresh = NoRefresh
    /\ fanout = NoFanout /\ external = NoExternal /\ manual = NoManual
    /\ request = [NoRequest EXCEPT !.pc = "inflight"]
    /\ db = NoDb

\* session.get(url) answers, or fails: the function returns, raises, or
\* empties the bucket and sleeps
AnswerReceived(r) ==
    /\ request.pc = "inflight"
    /\ LET out == fetch_collection_log_internal(r)
       IN /\ request' = [pc |-> IF out.raised THEN "raised"
                                ELSE IF out.sleep > 0 THEN "sleeping"
                                ELSE "returned",
                         answer |-> r,
                         returned |-> out.result,
                         raised |-> out.raised]
          /\ tokens' = IF out.zero THEN rate_limited_tokens ELSE tokens
    /\ UNCHANGED <<now, last_refill>>
    /\ AnswerFrame

\* The sleep after a 429 answer is over: `return None`
AnswerSlept ==
    /\ request.pc = "sleeping"
    /\ now' = now + fetch_collection_log_internal(request.answer).sleep
    /\ request' = [request EXCEPT !.pc = "returned"]
    /\ UNCHANGED <<tokens, last_refill>>
    /\ AnswerFrame

AnswerNext ==
    \/ \E r \in Responses : AnswerReceived(r)
    \/ AnswerSlept

SpecAnswer == AnswerInit /\ [][AnswerNext]_vars

\* ==================================================================
\* SpecRollback: a pass whose commit the store may refuse, with
\* refresh_leaderboard_display(guild_id) called while the pass awaits a
\* fetch (by /link or /unlink); the destination refuses nothing
\* ==================================================================
RollbackInit == RefreshInit

RollbackNext ==
    \/ PassStart
    \/ \E result \in FetchReturns, commit_ok \in BOOLEAN :
          PassResume(result, TRUE, commit_ok)
    \/ \E answer \in {"ok", "not_found"} : PassEdit(answer)
    \/ PassSend("ok")
    \/ \E first \in RowOrders(leaderboard) : RefreshDisplay(first)
    \/ \E answer \in {"ok", "not_found"} : RefreshEdit(answer)

SpecRollback == RollbackInit /\ [][RollbackNext]_vars

\* ==================================================================
\* SpecResync: /resync and the pass it calls, whose commit the store may
\* refuse; the destination refuses nothing
\* ==================================================================
ResyncInit == TwiceInit

ResyncNext ==
    \/ ManualStart
    \/ \E commit_ok \in BOOLEAN : ManualResume(commit_ok)
    \/ \E answer \in {"ok", "not_found"} : ManualEdit(answer)
    \/ ManualSend("ok")
    \/ ResyncFollowup

SpecResync == ResyncInit /\ [][ResyncNext]_vars

\* ==================================================================
\* SpecLive: the queue of SpecQueue with a fair scheduler, a clock that
\* advances and an external source that answers; a rate_limit_processor task
\* may be cancelled where it is suspended
\* ==================================================================
\* asyncio.CancelledError is raised in task p at its await: no handler
\* before `except asyncio.CancelledError` catches it, the flag is cleared and
\* no successor is created.  The request the task had taken from the queue
\* keeps its future pending.
ProcCancel(p) ==
    /\ procs[p].pc \in {"get", "tokenwait", "inflight", "cooldown"}
    /\ env.cancels < MaxCancels
    /\ env' = [env EXCEPT !.cancels = @ + 1]
    /\ processing' = FALSE
    /\ procs' = [procs EXCEPT ![p] = NoProc]
    /\ UNCHANGED <<now, tokens, last_refill, queue, callers, issued, consumed, quiet>>
    /\ QueueFrame

\* The answers of the external source followed in SpecLive: a score, a
\* failure of the server, a 429 with Retry-After: 0
LiveResponses ==
    {r \in Responses :
        \/ r.status = 200 /\ r.json /\ Len(r.activities) = 2
        \/ r.status = 503
        \/ r.status = 429 /\ r.retry_after = "0"}

\* The steps of the program itself, which a fair scheduler, the clock and an
\* answering source do not put off for ever
LiveCallerStep(c) == CallerResume(c) \/ CallerRetry(c)
LiveProcStep(p) ==
    \/ ProcStart(p)
    \/ ProcGet(p)
    \/ ProcTokenWake(p)
    \/ \E r \in LiveResponses : ProcResponse(p, r)
    \/ ProcCooldownWake(p)

LiveNext ==
    \/ \E c \in CallerIds, m \in 0 .. 1 : CallerStart(c, "alice", m)
    \/ \E c \in CallerIds : CallerResume(c)
    \/ \E c \in CallerIds : CallerRetry(c)
    \/ \E c \in CallerIds : CallerAbandon(c)
    \/ \E p \in ProcIds : ProcStart(p)
    \/ \E p \in ProcIds : ProcGet(p)
    \/ \E p \in ProcIds : ProcTokenWake(p)
    \/ \E p \in ProcIds, r \in LiveResponses : ProcResponse(p, r)
    \/ \E p \in ProcIds : ProcCooldownWake(p)
    \/ \E p \in ProcIds : ProcCancel(p)
    \/ Advance

LiveFairness ==
    /\ \A c \in CallerIds : WF_vars(LiveCallerStep(c))
    /\ \A p \in ProcIds : WF_vars(LiveProcStep(p))
    /\ WF_vars(Advance)

SpecLive == QueueInit /\ [][LiveNext]_vars /\ LiveFairness

\* ==================================================================
\* SpecStore: init_db at startup, the shared handle db_conn, and the flows
\* that get it from get_db_connection and execute statements on it
\* ==================================================================
StoreFrame == UNCHANGED <<limiterVars, clientVars, queueVars, syncVars,
                          overridden, ranking, refresh, fanout, external,
                          manual, request>>

\* The schema part of init_db on a file with these tables: PRAGMA
\* table_info(leaderboard) lists no column of a table that does not exist;
\* ALTER TABLE on it raises sqlite3.OperationalError, which leaves init_db
\* before any CREATE TABLE has run.
init_db(tables, columns, rank_default) ==
    LET listed == IF "leaderboard" \in tables THEN columns ELSE {}
    IN  IF RankColumn \notin listed /\ "leaderboard" \notin tables
        THEN [raised |-> TRUE, tables |-> tables, columns |-> columns,
              rank_default |-> rank_default]
        ELSE [raised |-> FALSE,
              tables |-> tables \cup Tables,
              columns |-> columns \cup {RankColumn},
              rank_default |-> IF RankColumn \notin listed THEN -1 ELSE rank_default]

\* The database files the program may be started on: empty, with the tables
\* of a version that had no hiscore_rank, already migrated
StartFiles ==
    {[NoDb EXCEPT !.start = "empty"],
     [NoDb EXCEPT !.start = "legacy", !.tables = Tables, !.columns = CreatedColumns],
     [NoDb EXCEPT !.start = "migrated", !.tables = Tables,
                  !.columns = CreatedColumns \cup {RankColumn}, !.rank_default = -1]}

StoreInit ==
    /\ InitBucket /\ InitClient /\ InitQueue /\ InitStore
    /\ overridden = NoOverride /\ ranking = NoRanking /\ refresh = NoRefresh
    /\ fanout = NoFanout /\ external = NoExternal /\ manual = NoManual
    /\ request = NoRequest
    /\ db \in StartFiles

\* init_db() when main.py is loaded: an exception ends the program
StartUp ==
    /\ db.pc = "off"
    /\ LET r == init_db(db.tables, db.columns, db.rank_default)
       IN  db' = [db EXCEPT !.pc = IF r.raised THEN "crashed" ELSE "running",
                            !.conn = 1,
                            !.tables = r.tables, !.columns = r.columns,
                            !.rank_default = r.rank_default]
    /\ StoreFrame

\* The connection db_conn names is lost
ConnectionLost ==
    /\ db.pc = "running"
    /\ db.conn \notin db.dead
    /\ db.losses < MaxLosses
    /\ db' = [db EXCEPT !.dead = @ \cup {db.conn}, !.losses = @ + 1]
    /\ StoreFrame

\* Flow f enters `with get_db_connection() as conn`: SELECT 1 on db_conn,
\* and init_db() when it raises
GetDbConnection(f) ==
    /\ db.pc = "running"
    /\ db.held[f] = 0
    /\ IF db.conn \notin db.dead
       THEN db' = [db EXCEPT !.held[f] = db.conn, !.op[f] = "get", !.last[f] = "ok"]
       ELSE /\ db.conn < MaxOpens
            /\ LET r == init_db(db.tables, db.columns, db.rank_default)
               IN  db' = [db EXCEPT !.conn = @ + 1,
                                    !.tables = r.tables, !.columns = r.columns,
                                    !.rank_default = r.rank_default,
                                    !.held[f] = IF r.raised THEN 0 ELSE db.conn + 1,
                                    !.op[f] = "get",
                                    !.last[f] = IF r.raised THEN "raised" ELSE "ok"]
    /\ StoreFrame

\* Flow f executes a statement on the connection it holds:
\* sqlite3.ProgrammingError on a lost one
Execute(f) ==
    /\ db.pc = "running"
    /\ db.held[f] # 0
    /\ db' = [db EXCEPT !.op[f] = "execute",
                        !.last[f] = IF db.held[f] \in db.dead THEN "raised" ELSE "ok"]
    /\ StoreFrame

\* Flow f leaves its `with` block
Release(f) ==
    /\ db.pc = "running"
    /\ db.held[f] # 0
    /\ db' = [db EXCEPT !.held[f] = 0]
    /\ StoreFrame

StoreNext ==
    \/ StartUp
    \/ ConnectionLost
    \/ \E f \in Flows : GetDbConnection(f)
    \/ \E f \in Flows : Execute(f)
    \/ \E f \in Flows : Release(f)

SpecStore == StoreInit /\ [][StoreNext]_vars

\* ==================================================================
\* SpecUnlink: /unlink beside a pass of the guild; the store and the
\* destination refuse nothing
\* ==================================================================
UnlinkInit == OverlapInit

\* linked_accounts without row i, or without every row of the username of
\* row i when a moderator unlinks
delete_linked(rows, i, is_admin) ==
    LET kept == {j \in DOMAIN rows : IF is_admin THEN rows[j] # rows[i] ELSE j # i}
        nth(k) == CHOOSE j \in kept : Cardinality({l \in kept : l < j}) = k - 1
    IN  [k \in 1 .. Cardinality(kept) |-> rows[nth(k)]]

\* /unlink of the username of row i of linked_accounts, by the owner of the
\* row or by a moderator: the rows of linked_accounts are deleted, then the
\* leaderboard row of the username, both committed, and
\* refresh_leaderboard_display(guild_id) is called, which reads the rows in
\* the order first.
Unlink(i, is_admin, first) ==
    /\ i \in DOMAIN linked_accounts
    /\ refresh.pc \in {"idle", "done"}
    /\ refresh.runs < MaxRefreshes
    /\ LET lb == [leaderboard EXCEPT ![linked_accounts[i]] = NoRow]
       IN  /\ first \in RowOrders(lb)
           /\ linked_accounts' = delete_linked(linked_accounts, i, is_admin)
           /\ leaderboard' = lb
           /\ committed' = lb
           /\ refresh' = [refresh EXCEPT
                            !.runs = @ + 1,
                            !.embed = render(top(sort(select_rows(lb, first)))),
                            !.answer = "none",
                            !.pc = IF \/ bot_state.channel_id = 0
                                      \/ ~channel.found
                                      \/ bot_state.message_id = 0
                                   THEN "done" ELSE "edit"]
    /\ UNCHANGED <<bot_state, channel, pass, overridden>>
    /\ UNCHANGED <<limiterVars, clientVars, queueVars, ranking, fanout, external,
                   manual, request, db>>

\* The orders in which a SELECT may return rows of distinct usernames
UserOrders ==
    {f \in UNION {[1 .. n -> Users] : n \in 0 .. Cardinality(Users)} :
        \A j, k \in DOMAIN f : f[j] = f[k] => j = k}

UnlinkNext ==
    \/ PassStart
    \/ PassResumeExternal
    \/ \E answer \in {"ok", "not_found"} : PassEdit(answer)
    \/ PassSend("ok")
    \/ \E i \in 1 .. MaxLinked, is_admin \in BOOLEAN, first \in UserOrders :
          Unlink(i, is_admin, first)
    \/ \E answer \in {"ok", "not_found"} : RefreshEdit(answer)

SpecUnlink == UnlinkInit /\ [][UnlinkNext]_vars

\* ==================================================================
\* Claims
\* ==================================================================

\* ------------------------------------------------------------------
\* C1. In every reachable state of the rate limiter, after any sequence of
\* refill_tokens, ensure_token_available and 429 responses, the token
\* count is at least 0 and at most MAX_BURST.  (SpecBucket)
\* ------------------------------------------------------------------
C1_TokensInRange == 0 <= tokens /\ tokens <= MAX_BURST

\* Time has passed, a refill was credited, a 429 answer has emptied the
\* bucket and ensure_token_available has found it empty.
C1_Witness ==
    /\ ~burst.pristine
    /\ last_refill > 0
    /\ tokens = 0
    /\ client.pc = "sleeping"

\* ------------------------------------------------------------------
\* C2. From a full bucket, with no time passing between the calls, each of
\* the first MAX_BURST calls of ensure_token_available returns without
\* sleeping; the next call sleeps once, for 60 / MAX_REQUESTS_PER_MINUTE
\* seconds, and returns on its second check.  (SpecBucket)
\* ------------------------------------------------------------------
C2_Wait == (60 * Second) \div MAX_REQUESTS_PER_MINUTE

C2_BurstThenWait ==
    burst.pristine =>
        /\ burst.calls < MAX_BURST => burst.sleeps = 0 /\ client.pc = "ready"
        /\ burst.calls = MAX_BURST =>
              \/ burst.sleeps = 0 /\ client.pc = "ready"
              \/ burst.sleeps = 1 /\ client.pc = "sleeping" /\ client.wake = C2_Wait
        /\ burst.calls = MAX_BURST + 1 /\ client.pc = "ready" =>
              burst.sleeps = 1 /\ now = C2_Wait

\* The call after the burst has slept and returned.
C2_Witness ==
    /\ burst.pristine
    /\ burst.calls = MAX_BURST + 1
    /\ client.pc = "ready"

\* ------------------------------------------------------------------
\* C3. Under every interleaving of concurrent callers of
\* enqueue_api_request, the requests issued never outnumber the tokens
\* taken out of the bucket, and the token count never goes below zero.
\* (SpecQueue)
\* ------------------------------------------------------------------
C3_OneTokenPerRequest == issued <= consumed /\ tokens >= 0

InFlight == {p \in ProcIds : procs[p].pc = "inflight"}

\* Two requests of two callers are in flight at once.
C3_Witness ==
    /\ Cardinality(InFlight) = 2
    /\ issued = 2
    /\ consumed = 2

\* ------------------------------------------------------------------
\* C4. Under every interleaving of concurrent callers of
\* enqueue_api_request, at most one rate_limit_processor task consumes the
\* queue at any time, so at most one external request is in flight.
\* (SpecQueue)
\* ------------------------------------------------------------------
Consuming == {p \in ProcIds : procs[p].pc \notin {"none", "new"}}

C4_SingleConsumer ==
    /\ Cardinality(Consuming) <= 1
    /\ Cardinality(InFlight) <= 1

\* ------------------------------------------------------------------
\* C5. For every max_retries >= 0, fetch_collection_log issues at most
\* max_retries + 1 requests, returns the first successful result as soon as
\* an attempt succeeds, and returns the failure value only when all
\* max_retries + 1 attempts have failed.  (SpecQueue)
\* ------------------------------------------------------------------
C5_RetryBound ==
    \A c \in CallerIds :
        LET me == callers[c]
        IN  /\ me.calls <= me.max_retries + 1
            /\ me.oks <= 1
            /\ me.oks = 1 => me.calls = me.fails + 1
            /\ me.pc = "done" /\ ~me.result.none =>
                  me.oks = 1 /\ me.result = me.value
            /\ me.pc = "done" /\ me.result.none =>
                  me.oks = 0 /\ me.fails = me.max_retries + 1
                             /\ me.calls = me.max_retries + 1

\* The first max_retries = 2 attempts failed and the last one succeeded.
C5_Witness ==
    \E c \in CallerIds :
        /\ callers[c].pc = "done"
        /\ ~callers[c].result.none
        /\ callers[c].max_retries = 2
        /\ callers[c].fails = 2
        /\ callers[c].calls = 3

\* ------------------------------------------------------------------
\* C6. After a 429 answer with advisory wait R (60 when Retry-After is
\* missing or no number), no further external request is issued until
\* R + 1 seconds have passed, for every interleaving of callers.
\* (SpecQueue)
\* ------------------------------------------------------------------
C6_QuietAfter429 == ~quiet.early

\* ------------------------------------------------------------------
\* C7. A 200 answer whose activities list has no entry with id 18 yields
\* the result {score: -1, rank: -1}: it is no failure, it is not retried
\* and it costs one request.  (SpecQueue)
\* ------------------------------------------------------------------
C7_AbsentIsSentinel ==
    \A c \in CallerIds :
        LET me == callers[c]
        IN  me.absent =>
              /\ me.oks = 1
              /\ me.calls = me.fails + 1
              /\ me.value = Result(-1, -1)
              /\ \/ me.pc = "waiting" /\ me.future = "done"
                 \/ me.pc = "done" /\ me.result = Result(-1, -1)

\* A lookup answered at once by such a list has returned after one request.
C7_Witness ==
    \E c \in CallerIds :
        /\ callers[c].absent
        /\ callers[c].pc = "done"
        /\ callers[c].calls = 1

LoopOver == pass.pc \in {"done", "edit", "send"} /\ pass.usernames # <<>>

\* The fetches the pass has made for username u
Fetches(u) == {i \in DOMAIN pass.fetched : pass.fetched[i].username = u}

\* Every fetch of u has failed after all retries
FetchFailed(u) ==
    Fetches(u) # {} /\ \A i \in Fetches(u) : pass.fetched[i].result.none

\* The entries of the pass's snapshot for username u
Entries(u) ==
    {i \in DOMAIN pass.leaderboard_data : pass.leaderboard_data[i][1] = u}

\* The i-th turn of the loop has failed: the fetch gave None, the pass has
\* logged "Could not fetch collection log", or an exception was raised
TurnFailed(i) ==
    \/ pass.fetched[i].result.none
    \/ pass.fetched[i].result.score = Null
    \/ pass.fetched[i].raised

\* ------------------------------------------------------------------
\* C9. In a sync pass, for every tracked participant whose fetch fails
\* after all retries: if a leaderboard row existed for it before the pass,
\* the participant is in the pass's snapshot with its previous score and
\* its stored row is unchanged; if no row existed, the participant is
\* absent from the snapshot.  (SpecSync)
\* ------------------------------------------------------------------
C9_FailedFetchCarriesPrevious ==
    LoopOver =>
        \A u \in Users :
            FetchFailed(u) =>
                IF pass.before[u].present
                THEN /\ \E i \in Entries(u) :
                            pass.leaderboard_data[i][2] = pass.before[u].total
                     /\ leaderboard[u] = pass.before[u]
                ELSE Entries(u) = {}

\* ------------------------------------------------------------------
\* C10. A fetch failure, or an exception raised while processing, for one
\* participant never aborts the pass: unless the store refuses the commit,
\* every tracked participant is fetched, every other one is upserted, the
\* store is committed and the ranking is rendered and handed to
\* publishing.  (SpecSync)
\* ------------------------------------------------------------------
C10_FailureNeverAborts ==
    (/\ LoopOver
     /\ ~pass.refused
     /\ \E i \in DOMAIN pass.fetched : TurnFailed(i))
    => /\ Len(pass.fetched) = Len(pass.usernames)
       /\ \A i \in DOMAIN pass.fetched :
             ~TurnFailed(i) =>
                LET u == pass.fetched[i].username
                IN /\ committed[u].present
                   /\ \E j \in Fetches(u) :
                         /\ ~TurnFailed(j)
                         /\ committed[u].rank = pass.fetched[j].result.rank
       /\ pass.committed
       /\ committed = leaderboard
       /\ pass.rendered

\* ------------------------------------------------------------------
\* C11. When a participant's fetch succeeds with score -1, the score the
\* pass writes is the stored score p if a row exists with 0 <= p <= 499,
\* and -1 in every other case.  (SpecSync)
\* ------------------------------------------------------------------
\* The i-th turn of the loop had a result with score -1 and its statements
\* were executed
SentinelTurn(i) ==
    /\ ~pass.fetched[i].result.none
    /\ pass.fetched[i].result.score = -1
    /\ ~pass.fetched[i].raised

C11_SentinelKeepsStoredBelow500 ==
    \A i \in DOMAIN pass.fetched :
        SentinelTurn(i) =>
            LET was == pass.fetched[i].was
                wrote == pass.fetched[i].wrote
            IN /\ wrote.present
               /\ wrote.total = IF was.present /\ 0 <= was.total /\ was.total <= 499
                                THEN was.total ELSE -1

\* ------------------------------------------------------------------
\* C12. A tracked participant whose fetch returns score -1 and who has no
\* stored row is not dropped: after a pass in which the store refuses
\* nothing, a row with score -1 exists for it, it is in the ranked
\* snapshot, and its score is rendered as "<500".  (SpecSync)
\* ------------------------------------------------------------------
\* Every fetch of u in the pass had a result with score -1
SentinelOnly(u) ==
    /\ Fetches(u) # {}
    /\ \A i \in Fetches(u) : SentinelTurn(i)

C12_SentinelNotDropped ==
    (LoopOver /\ pass.errors = 0) =>
        \A u \in Users :
            (SentinelOnly(u) /\ ~pass.before[u].present) =>
                /\ committed[u].present
                /\ committed[u].total = -1
                /\ Entries(u) # {}
                /\ pass.rendered
                /\ \E k \in DOMAIN pass.embed :
                      /\ pass.embed[k].username = u
                      /\ pass.embed[k].display_score = "<500"

C14_Example == << <<1, 100, 5>>, <<2, 100, 2>>, <<3, 150, -1>> >>

C14_SortedByScoreThenRank ==
    ranking.done =>
        LET s == ranking.sorted
        IN /\ Len(s) = Len(ranking.input)
           /\ {s[i] : i \in DOMAIN s} = {ranking.input[i] : i \in DOMAIN ranking.input}
           /\ \A i, j \in DOMAIN s :
                 i < j =>
                    /\ s[i][2] >= s[j][2]
                    /\ (s[i][2] = s[j][2] /\ s[j][3] > 0) =>
                          (s[i][3] > 0 /\ s[i][3] <= s[j][3])
           /\ \A k \in DOMAIN ranking.output : ranking.output[k] = s[k]
           /\ ranking.input = C14_Example =>
                 ranking.output = << <<3, 150, -1>>, <<2, 100, 2>>, <<1, 100, 5>> >>

\* The records of the example have been ranked.
C14_Witness ==
    /\ ranking.done
    /\ ranking.input = C14_Example
    /\ ranking.output[1][1] = 3

\* ------------------------------------------------------------------
\* C15. For n records the published snapshot has exactly min(n, 50)
\* entries, and they are the first min(n, 50) of the full ranking, in its
\* order.  (SpecRank)
\* ------------------------------------------------------------------
C15_TopFifty ==
    ranking.done =>
        LET n == Len(ranking.input)
            k == IF n < 50 THEN n ELSE 50
        IN /\ Len(ranking.lines) = k
           /\ Len(ranking.output) = k
           /\ \A i \in 1 .. k :
                 /\ ranking.output[i] = ranking.sorted[i]
                 /\ ranking.lines[i].username = ranking.sorted[i][1]

\* More than 50 records have been ranked, not all with the same score.
C15_Witness ==
    /\ ranking.done
    /\ Len(ranking.input) > 50
    /\ Len(ranking.output) = 50
    /\ ranking.sorted[50][2] > ranking.sorted[51][2]

\* ------------------------------------------------------------------
\* History of the publishing of a pass (SpecPublish)
\* ------------------------------------------------------------------
\* The destination has refused nothing the pass has asked of it
NothingRefused ==
    /\ pass.edit_answer \notin {"forbidden", "error"}
    /\ pass.send_answer \notin {"forbidden", "error"}

\* The pass has built its embed for a guild whose channel is set and found
Publishing ==
    /\ pass.pc = "done"
    /\ pass.rendered
    /\ bot_state.channel_id # 0
    /\ channel.found

\* ------------------------------------------------------------------
\* C16. When a pass follows another one of the same guild and the message
\* published by the first still exists at the destination, the second
\* pass, if the destination refuses nothing, performs exactly one edit, on
\* the message with the stored id, creates no new message and leaves the
\* stored id unchanged.  (SpecPublish)
\* ------------------------------------------------------------------
C16_SecondPassEditsInPlace ==
    (/\ Publishing
     /\ pass.id_before # 0
     /\ pass.edit_answer # "none"
     /\ pass.existed
     /\ NothingRefused)
    => /\ pass.edits = 1
       /\ pass.edited_id = pass.id_before
       /\ pass.sends = 0
       /\ pass.send_answer = "none"
       /\ bot_state.message_id = pass.id_before

\* The first pass has sent the message and the second one, with the same
\* ranked list, has edited it.
C16_Witness ==
    /\ Publishing
    /\ pass.runs = 2
    /\ channel.sends = 1
    /\ pass.edits = 1
    /\ pass.edited_id = pass.id_before
    /\ pass.embed # <<>>
    /\ pass.embed = pass.shown_before

\* ------------------------------------------------------------------
\* C17. If the stored message id refers to a message that no longer
\* exists at the destination, or no message id is stored, the pass, if the
\* destination refuses nothing, creates exactly one new message in the
\* channel and the stored id afterwards is the id of that message.
\* (SpecPublish)
\* ------------------------------------------------------------------
C17_MissingMessageIsReplaced ==
    (/\ Publishing
     /\ \/ pass.id_before = 0
        \/ pass.edit_answer # "none" /\ ~pass.existed
     /\ NothingRefused)
    => /\ pass.sends = 1
       /\ pass.edits = 0
       /\ pass.created_id # 0
       /\ pass.created_id # pass.id_before
       /\ bot_state.message_id = pass.created_id
       /\ channel.deletes = 0 => pass.created_id \in channel.messages

\* The message of the stored id was gone and a new one has been sent.
C17_Witness ==
    /\ Publishing
    /\ pass.id_before # 0
    /\ pass.edit_answer = "not_found"
    /\ pass.sends = 1
    /\ bot_state.message_id = pass.created_id

\* ------------------------------------------------------------------
\* C18. If the destination forbids editing the existing message, the pass
\* stops publishing: no other request is made at the destination, no new
\* message is created, the stored id is unchanged, and the rows written by
\* the pass are committed in the store.  (SpecPublish)
\* ------------------------------------------------------------------
C18_ForbiddenEditStops ==
    (pass.pc = "done" /\ pass.edit_answer = "forbidden")
    => /\ pass.edits = 0
       /\ pass.sends = 0
       /\ pass.send_answer = "none"
       /\ bot_state.message_id = pass.id_before
       /\ pass.committed
       /\ committed = leaderboard
       /\ \A i \in DOMAIN pass.fetched :
             pass.fetched[i].wrote.present =>
                \E j \in Fetches(pass.fetched[i].username) :
                    /\ j >= i
                    /\ committed[pass.fetched[i].username] = pass.fetched[j].wrote

\* The edit of an existing message was forbidden after the pass had
\* written a new score.
C18_Witness ==
    /\ pass.pc = "done"
    /\ pass.edit_answer = "forbidden"
    /\ pass.existed
    /\ committed # pass.before
    /\ \E i \in DOMAIN pass.fetched : pass.fetched[i].wrote.present

\* ------------------------------------------------------------------
\* C19. refresh_leaderboard_display renders only from the stored
\* leaderboard rows: no step of it starts a fetch, enqueues a request,
\* takes a token or issues an external request, none changes a leaderboard
\* row or the stored message id, and its embed has one line for every
\* stored row, showing the stored total.  (SpecRefresh)
\* ------------------------------------------------------------------
C19_RefreshOnlyRenders ==
    [][refresh' # refresh =>
          /\ leaderboard' = leaderboard
          /\ bot_state' = bot_state
          /\ pass' = pass
          /\ queue' = queue
          /\ callers' = callers
          /\ issued' = issued
          /\ consumed' = consumed
          /\ tokens' = tokens
          /\ refresh.pc # "edit" =>
                /\ Len(refresh'.embed) = Cardinality({u \in Users : leaderboard[u].present})
                /\ \A k \in DOMAIN refresh'.embed :
                      LET u == refresh'.embed[k].username
                      IN /\ leaderboard[u].present
                         /\ refresh'.embed[k].display_score
                               = display_score(leaderboard[u].total)
                /\ \A k, l \in DOMAIN refresh'.embed :
                      refresh'.embed[k].username = refresh'.embed[l].username => k = l
    ]_vars

\* A refresh has edited the message with two rows while a pass was in the
\* middle of its loop.
C19_Witness ==
    /\ refresh.pc = "done"
    /\ refresh.answer = "ok"
    /\ Len(refresh.embed) = 2
    /\ channel.content = refresh.embed
    /\ pass.pc = "fetch"
    /\ pass.idx = 2

\* ------------------------------------------------------------------
\* C20. update_leaderboard() without a guild runs the pass of a single
\* guild exactly once for each distinct guild_id of linked_accounts, one
\* pass returning before the next starts, and no nested invocation fans
\* out again: at most one invocation is nested in the global one, and the
\* global invocation ends by returning, whatever the guild ids are.
\* (SpecFanOut)
\* ------------------------------------------------------------------
GuildIdsHeld == {fanout.guild_ids[i] : i \in DOMAIN fanout.guild_ids}

PassesUnderWay ==
    Cardinality({k \in DOMAIN fanout.stack :
                    ~IsGlobal(fanout.stack[k]) /\ fanout.stack[k].pc = "pass"})

C20_FanOutOnceOneLevel ==
    /\ Len(fanout.stack) <= 2
    /\ \A k \in DOMAIN fanout.stack : k > 1 => ~IsGlobal(fanout.stack[k])
    /\ PassesUnderWay <= 1
    /\ \A g \in GuildIds : fanout.started[g] <= 1
    /\ ~fanout.raising /\ fanout.errors = 0 /\ fanout.pc # "escaped"
    /\ fanout.pc = "done" =>
          \A g \in GuildIds : fanout.runs[g] = (IF g \in GuildIdsHeld THEN 1 ELSE 0)

\* ------------------------------------------------------------------
\* C21. A pass for a guild with no linked username does nothing: it
\* fetches nothing, leaves every leaderboard row as it was, makes no edit
\* and no send at the destination, and leaves the stored message id as it
\* was.  (SpecSync)
\* ------------------------------------------------------------------
C21_EmptyGuildPassIsNoOp ==
    (pass.runs > 0 /\ pass.usernames = <<>>) =>
        /\ pass.pc = "done"
        /\ pass.fetched = <<>>
        /\ issued = 0 /\ queue = <<>>
        /\ leaderboard = pass.before
        /\ committed = pass.before
        /\ pass.edits = 0 /\ pass.sends = 0
        /\ channel.edits = 0 /\ channel.sends = 0
        /\ channel.content = pass.shown_before
        /\ bot_state.message_id = pass.id_before

\* The pass of a guild without usernames has run although the channel and
\* the stored message were there to be edited.
C21_Witness ==
    /\ pass.runs = 1
    /\ pass.usernames = <<>>
    /\ pass.pc = "done"
    /\ bot_state.channel_id = 1
    /\ channel.found
    /\ bot_state.message_id \in channel.messages

\* ------------------------------------------------------------------
\* C22. Nothing that fails inside a pass leaves update_leaderboard: the
\* failure is logged and the invocation returns, so the loop over the
\* guild ids goes on to the passes of the guilds that follow, the tick
\* ends with a pass run for every guild, no exception reaches the
\* periodic task, and the next tick can start.  (SpecFanOut)
\* ------------------------------------------------------------------
C22_FailuresStayInsideThePass ==
    /\ fanout.pc # "escaped"
    /\ fanout.raising => \E k \in DOMAIN fanout.guild_ids : fanout.guild_ids[k] = Null
    /\ fanout.pc = "done" =>
          /\ fanout.stack = <<>>
          /\ \A g \in GuildIdsHeld \ {Null} : fanout.runs[g] >= 1
          /\ fanout.ticks < MaxTicks => ENABLED GlobalStart

\* The second tick has ended with a pass for both guilds, after the pass of
\* the first guild has failed in both ticks.
C22_Witness ==
    /\ fanout.pc = "done"
    /\ fanout.ticks = 2
    /\ fanout.guild_ids = <<1, 2>>
    /\ fanout.failed[1] = 2
    /\ fanout.runs[1] = 1
    /\ fanout.runs[2] = 1

\* ------------------------------------------------------------------
\* C23. With the same external data, the second of two passes run one
\* after the other changes nothing: the leaderboard rows after it are the
\* rows the first pass left, and the ranking shown at the destination is
\* the one the first pass showed.  (SpecTwice)
\* ------------------------------------------------------------------
C23_SecondPassChangesNothing ==
    (pass.runs = 2 /\ pass.pc = "done") =>
        /\ leaderboard = pass.before
        /\ committed = pass.before
        /\ channel.content = pass.shown_before
        /\ (pass.rendered /\ bot_state.channel_id # 0 /\ channel.found) =>
              /\ pass.edits + pass.sends = 1
              /\ pass.shown_before = pass.embed

\* The second pass has ended after a username whose stored total is kept
\* for a score of -1 and one whose fetched score is written, and has shown
\* its ranking.
C23_Witness ==
    /\ pass.runs = 2 /\ pass.pc = "done"
    /\ pass.edits = 1
    /\ Len(channel.content) = 2
    /\ \E i \in DOMAIN pass.fetched :
          /\ pass.fetched[i].result = Result(-1, -1)
          /\ pass.fetched[i].wrote.total = 100
    /\ \E i \in DOMAIN pass.fetched : pass.fetched[i].result = Result(600, 7)

\* ------------------------------------------------------------------
\* C24. When the scheduled pass and the pass of /resync for the same guild
\* overlap and the external data is the same for both, the leaderboard
\* rows once both have ended are the rows a single pass leaves: every
\* linked username has the row one pass alone writes for it, nothing else
\* has changed, and everything is committed.  (SpecOverlap)
\* ------------------------------------------------------------------
\* The rows one pass alone leaves when it starts from the rows lb
single_pass_rows(lb) ==
    [u \in Users |->
        IF u \in Linked(linked_accounts)
        THEN process_user(lb, [v \in Users |-> NoRow], u, external[u],
                          TRUE).leaderboard[u]
        ELSE lb[u]]

BothEnded ==
    /\ pass.runs = 1 /\ pass.pc = "done"
    /\ manual.pass.runs = 1 /\ manual.pass.pc = "done"

C24_OverlapLeavesRowsOfOnePass ==
    BothEnded =>
        /\ leaderboard = single_pass_rows(pass.before)
        /\ leaderboard = single_pass_rows(manual.pass.before)
        /\ committed = leaderboard

\* Both passes have ended after the pass of /resync began behind the first
\* write of the scheduled pass and wrote the row of the second username
\* before the scheduled pass did.
C24_Witness ==
    /\ BothEnded
    /\ linked_accounts = <<"alice", "bob">>
    /\ manual.pass.before["alice"] # pass.before["alice"]
    /\ manual.pass.before["bob"] = pass.before["bob"]
    /\ Len(pass.fetched) = 2
    /\ pass.fetched[2].was # pass.before["bob"]

\* ------------------------------------------------------------------
\* C25. In fetch_collection_log, after the failed attempt number k with
\* k < max_retries the caller sleeps 2^k seconds and enqueues the next
\* attempt when the sleep is over; after the failed attempt number
\* max_retries it returns the failure at once.  (SpecQueue)
\* ------------------------------------------------------------------
C25_BackoffDoubles ==
    [][\A c \in CallerIds :
          LET me == callers[c]
              after == callers'[c]
          IN /\ (me.pc = "waiting" /\ after.pc = "backoff") =>
                   /\ me.value.none
                   /\ me.attempt < me.max_retries
                   /\ after.wake = now + (2 ^ me.attempt) * Second
                   /\ after.attempt = me.attempt
                   /\ now' = now
             /\ (me.pc = "backoff" /\ after.pc # "backoff") =>
                   /\ after.pc = "waiting"
                   /\ now = me.wake
                   /\ now' = now
                   /\ after.attempt = me.attempt + 1
                   /\ queue' = Append(queue, c)
             /\ (me.pc = "waiting" /\ after.pc = "done" /\ after.result.none) =>
                   /\ me.attempt = me.max_retries
                   /\ after.ended = now
                   /\ now' = now
    ]_vars

\* A caller sleeps two seconds after its second failed attempt.
C25_Witness ==
    \E c \in CallerIds :
        /\ callers[c].pc = "backoff"
        /\ callers[c].attempt = 1
        /\ callers[c].max_retries = 2
        /\ callers[c].wake = now + 2 * Second

\* ------------------------------------------------------------------
\* C26. Whatever a request meets other than a 200 answer whose body
\* parses (no answer at all, a status of 500 or more, 429, another status,
\* a body that does not parse), _fetch_collection_log_internal returns
\* None: it raises nothing to its caller and returns no score.
\* (SpecAnswer)
\* ------------------------------------------------------------------
Parseable200(r) == r.status = 200 /\ r.json

C26_OnlyParsed200YieldsAScore ==
    /\ request.pc # "raised"
    /\ ~request.raised
    /\ (request.pc \in {"sleeping", "returned"} /\ ~Parseable200(request.answer)) =>
          /\ request.returned = None
          /\ request.returned.none
    /\ request.pc = "sleeping" => request.answer.status = 429

\* The function has returned after a 429 answer and the sleep it asks for.
C26_Witness ==
    /\ request.pc = "returned"
    /\ request.answer.status = 429
    /\ request.returned = None
    /\ tokens = 0
    /\ now > 0

\* ------------------------------------------------------------------
\* C27. When the store refuses the commit at the end of the loop, the pass
\* is aborted: it makes no edit and no send at the destination, and none
\* of its upserts stays in the store, the rows being those the pass found
\* when it began.  (SpecRollback)
\* ------------------------------------------------------------------
C27_RefusedCommitUndoesThePass ==
    pass.refused =>
        /\ pass.pc = "done"
        /\ pass.aborted
        /\ ~pass.rendered
        /\ pass.edits = 0 /\ pass.sends = 0
        /\ committed = pass.before
        /\ leaderboard = pass.before

\* ------------------------------------------------------------------
\* C28. /resync tells its caller that the leaderboard was updated only
\* when the pass it called was not aborted by a failure of the store.
\* (SpecResync)
\* ------------------------------------------------------------------
C28_ResyncReportsOnlyCompletedPass ==
    manual.followup = "success" => ~manual.pass.refused

\* ------------------------------------------------------------------
\* Enumeration orders of the records given to the ranking
\* ------------------------------------------------------------------
\* The orders in which a SELECT without ORDER BY may give n rows
Orders(n) == {f \in [1 .. n -> 1 .. n] : \A i, j \in 1 .. n : f[i] = f[j] => i = j}

\* The records of data as enumerated in the order f
reorder(data, f) == [i \in DOMAIN data |-> data[f[i]]]

\* ------------------------------------------------------------------
\* C29. The ranked list depends on the set of records only: in whichever
\* order the same records are enumerated, records tying on both score and
\* rank included, the ranked list is the same.  (SpecRank, short lists)
\* ------------------------------------------------------------------
C29_RankedListIgnoresEnumerationOrder ==
    (ranking.done /\ Len(ranking.input) <= MaxSmall) =>
        \A f \in Orders(Len(ranking.input)) :
            top(sort(reorder(ranking.input, f))) = ranking.output

\* ------------------------------------------------------------------
\* C30. External requests are issued in the order in which they were
\* enqueued: a request whose token has been acquired and whose callback has
\* been started has left no request enqueued before it waiting.  (SpecQueue)
\* ------------------------------------------------------------------
C30_IssuedInEnqueueOrder ==
    \A c \in CallerIds : callers[c].after # {} => c \in Unissued

\* ------------------------------------------------------------------
\* C31. Every request passed to enqueue_api_request is eventually executed
\* and its caller eventually resumes, with a fair scheduler, a clock that
\* advances and a source that answers; also after the processor task was
\* cancelled or has crashed with requests in the queue, and after a caller
\* has abandoned its wait.  (SpecLive)
\* ------------------------------------------------------------------
C31_EveryRequestIsServed ==
    \A c \in CallerIds :
        /\ (c \in Unissued) ~> (c \notin Unissued)
        /\ (callers[c].pc = "waiting") ~> (callers[c].pc # "waiting")

\* ------------------------------------------------------------------
\* C32. While a caller of fetch_collection_log is suspended in its retry
\* backoff, the requests of the other callers go on being processed: with a
\* request in the queue, some rate_limit_processor task is about to take a
\* request, or is held by the token wait, the request in flight or the 429
\* cooldown of another caller's request; no task is held by the backoff.
\* (SpecQueue)
\* ------------------------------------------------------------------
C32_BackoffHoldsNoTask ==
    \A c \in CallerIds :
        callers[c].pc = "backoff" =>
            /\ \A p \in ProcIds : procs[p].req # c
            /\ queue # <<>> =>
                  \E p \in ProcIds :
                      \/ ENABLED ProcStart(p)
                      \/ ENABLED ProcGet(p)
                      \/ procs[p].pc \in {"tokenwait", "inflight", "cooldown"}

\* Caller 1 is suspended in the backoff after its second failed attempt and
\* the request of caller 2 has been issued and answered with a score.
C32_Witness ==
    /\ callers[1].pc = "backoff"
    /\ now < callers[1].wake
    /\ callers[2].pc = "done"
    /\ ~callers[2].result.none
    /\ callers[2].calls = 1
    /\ callers[2].after = {}
    /\ callers[1].calls = 2
    /\ callers[2].ended > 0

\* ------------------------------------------------------------------
\* C33. get_db_connection gives a usable connection on every call: a lost
\* handle is reopened before it returns, and the next store operation of
\* any flow succeeds: no call of get_db_connection and no statement of a
\* flow raises.  (SpecStore)
\* ------------------------------------------------------------------
C33_EveryFlowFindsTheStore ==
    \A f \in Flows : db.last[f] # "raised"

\* ------------------------------------------------------------------
\* C40. init_db ends without an error and leaves the three tables, the
\* leaderboard table with the column hiscore_rank of default -1, whatever
\* the database it starts on: empty, without hiscore_rank, or migrated.
\* (SpecStore)
\* ------------------------------------------------------------------
C40_InitDbMigratesEveryStore ==
    db.pc # "off" =>
        /\ db.pc = "running"
        /\ db.tables = Tables
        /\ RankColumn \in db.columns
        /\ db.rank_default = -1

\* ------------------------------------------------------------------
\* C34. /override accepts a total exactly when it lies in [0, 499], the
\* range its rejection message names, and the username has a leaderboard
\* row whose total is under 500: it then stores and commits the total; any
\* other call leaves the store as it was.  (SpecOverride)
\* ------------------------------------------------------------------
C34_OverrideAcceptsAnnouncedRange ==
    [][\A username \in Users, total \in OverrideTotals :
          Override(username, total) =>
              IF /\ total >= 0 /\ total <= 499
                 /\ leaderboard[username].present
                 /\ leaderboard[username].total < 500
              THEN /\ leaderboard' = [leaderboard EXCEPT ![username].total = total]
                   /\ committed' = leaderboard'
                   /\ overridden'.accepted[username] = total
                   /\ pass' # pass
              ELSE UNCHANGED <<leaderboard, committed, pass>>]_vars

\* ------------------------------------------------------------------
\* C35. Two passes of the same guild that overlap create at most one
\* message while no message id is stored or the stored message is missing:
\* they never both send one, which would leave a message at the destination
\* that bot_state does not name.  (SpecOverlap, where no message is deleted)
\* ------------------------------------------------------------------
C35_OverlapCreatesOneMessage ==
    /\ channel.sends <= 1
    /\ pass.sends + manual.pass.sends <= 1

\* ------------------------------------------------------------------
\* C36. Whenever no operation is in progress, every leaderboard row of the
\* guild has a linked_accounts row of the same username, however a pass
\* suspended at a fetch and an /unlink of the username interleave.
\* (SpecUnlink)
\* ------------------------------------------------------------------
C36_NoRowWithoutLink ==
    (pass.pc \in {"idle", "done"} /\ refresh.pc \in {"idle", "done"}) =>
        \A u \in Users :
            (leaderboard[u].present \/ committed[u].present)
                => u \in Linked(linked_accounts)

\* ------------------------------------------------------------------
\* C37. A username appears at most once in the ranked list a pass
\* publishes, whatever linked_accounts holds, a username linked by several
\* owners of the guild included.  (SpecSync)
\* ------------------------------------------------------------------
C37_UsernameRankedOnce ==
    pass.rendered =>
        \A i, j \in DOMAIN pass.embed :
            pass.embed[i].username = pass.embed[j].username => i = j

\* ------------------------------------------------------------------
\* C38. Once a pass has published, refresh_leaderboard_display on the
\* unchanged store renders the same usernames with the same scores in the
\* same order: the published list is the ranking of the first 50 of the
\* leaderboard rows of the guild, in whichever order the rows are read.
\* (SpecRefresh)
\* ------------------------------------------------------------------
C38_PublishedListIsStoredRanking ==
    (pass.pc = "done" /\ pass.rendered /\ pass.edits + pass.sends = 1) =>
        \A first \in RowOrders(leaderboard) :
            render(top(sort(select_rows(leaderboard, first)))) = pass.embed

\* ------------------------------------------------------------------
\* C39. In any time window of length T seconds, after any sequence of
\* requests and 429 responses, the number of tokens consumed is at most
\* MAX_BURST + floor(T * MAX_REQUESTS_PER_MINUTE / 60); lazy refill never
\* credits more tokens than the time elapsed since the last credited refill
\* allows.  (SpecWindow)
\* ------------------------------------------------------------------
C39_WindowBound ==
    burst.open =>
        burst.taken <= MAX_BURST + new_tokens(burst.since, now)

====
